---- MODULE Spec2Model ----
(***************************************************************************)
(* A model of deval: the span-preserving JSON and TOML front ends, the     *)
(* schema compiler, the validator runtime and the `check` command.         *)
(*                                                                         *)
(* Values are records.  An Option<T> is a sequence of length 0 (None) or   *)
(* 1 (Some).  A 64-bit float is an integer number of tenths (25 is 2.5),   *)
(* so that fract() is the remainder modulo 10.                             *)
(***************************************************************************)
EXTENDS Integers, Sequences, FiniteSets, TLC

VARIABLES
    v_schema,     \* validator run: the validator handed to validate
    v_data,       \* validator run: the spanned value handed to validate
    v_res,        \* validator run: what validate returned (or that it panicked)
    j_tree,       \* Json.parse: the concrete-syntax tree of the source
    j_res,        \* Json.parse: what parse returned
    t_nodes,      \* Toml.parse: the top-level nodes the loop has applied
    t_root,       \* Toml.parse: root_data built so far
    t_errors,     \* Toml.parse: errors the loop has recorded so far
    t_res,        \* Toml.parse: what parse returned
    cli_in,       \* check: the command's inputs
    cli_out,      \* check: exit code and the diagnostics reported
    lsp_backend,  \* language server: the Backend start_server built
    documents,    \* language server: Backend.documents, a Document per URI
    lsp_pending,  \* language server: the handlers suspended at an await
    lsp_reply,    \* language server: the response to the request handled
    lsp_client,   \* language server: per URI, what the client has sent
    lsp_count,    \* language server: the messages received so far
    s_source,     \* compile: the schema source given to it
    s_compiled,   \* compile: what compile returned (or that it panicked)
    c_schema,     \* convert: the JSON Schema given to it
    c_text        \* convert: the DVL text each invocation returned

vars == << v_schema, v_data, v_res, j_tree, j_res, t_nodes, t_root, t_errors,
           t_res, cli_in, cli_out, lsp_backend, documents, lsp_pending,
           lsp_reply, lsp_client, lsp_count, s_source, s_compiled, c_schema,
           c_text >>

v_vars == << v_schema, v_data, v_res >>
j_vars == << j_tree, j_res >>
t_vars == << t_nodes, t_root, t_errors, t_res >>
cli_vars == << cli_in, cli_out >>
lsp_vars == << lsp_backend, documents, lsp_pending, lsp_reply, lsp_client,
              lsp_count >>
s_vars == << s_source, s_compiled >>
c_vars == << c_schema, c_text >>

----------------------------------------------------------------------------
(* Bounds of the model.                                                    *)

\* pairs of a generated object
MaxPairs == 2
\* elements of a generated array
MaxItems == 2
\* the messages a client sends to the language server
MaxMessages == 3
\* the handlers the server has suspended at one time
MaxInFlight == 2
\* the greatest line and the greatest character of a position in a request
MaxLine == 2
MaxCol == 3
\* top-level nodes of a generated TOML document
MaxNodes == 2
\* invocations of convert on one JSON Schema
MaxCalls == 2

None == << >>
Some(x) == << x >>

RECURSIVE SumSeq(_)
SumSeq(s) == IF s = << >> THEN 0 ELSE Head(s) + SumSeq(Tail(s))

\* all sequences over S of length at most n
SeqUpTo(S, n) == UNION { [1..k -> S] : k \in 0..n }

----------------------------------------------------------------------------
(* deval-data-model: spans.                                                *)

Span(f, s, e) == [filename |-> f, start |-> s, end |-> e]

\* SpanSet::primary: self.0[0]
primary(spanset) == spanset[1]

----------------------------------------------------------------------------
(* The concrete-syntax tree tree-sitter hands to the JSON front end.  The  *)
(* trees are those of compactly written documents: a node covers the bytes *)
(* of its text.  A plain value is a document before it is written out.     *)

PNull == [kind |-> "Null"]
PBool(b) == [kind |-> "Bool", b |-> b]
PNum(n) == [kind |-> "Number", num |-> n]
PStr(s) == [kind |-> "String", str |-> s]
PArr(items) == [kind |-> "Array", items |-> items]
PObj(pairs) == [kind |-> "Object", pairs |-> pairs]
\* a number token f64 does not parse, a syntax error, a comment
PBadNum == [kind |-> "BadNumber"]
PError == [kind |-> "Error"]
PComment == [kind |-> "Comment"]
\* a pair: key text, value; a pair whose key is a number token
PPair(k, v) == [kind |-> "Pair", key |-> k, val |-> v]
PPairNumKey(v) == [kind |-> "PairNumKey", val |-> v]

\* bytes of a string's content
StrLen(s) ==
    CASE s = "n" -> 1
      [] s = "x" -> 1
      [] s = "y" -> 1
      [] s = "age" -> 3
      [] s = "Ada" -> 3
      [] s = "name" -> 4
      [] s = "oops" -> 4
      [] s = "hello" -> 5
      [] s = "extra" -> 5
      [] OTHER -> 2

\* bytes of a number written out: tenths n is "5", "37" or "2.5"
NumLen(n) ==
    IF n % 10 = 0 THEN (IF n \div 10 >= 10 THEN 2 ELSE 1) ELSE 3

RECURSIVE PWidth(_)
PWidth(p) ==
    CASE p.kind = "Null" -> 4
      [] p.kind = "Bool" -> IF p.b THEN 4 ELSE 5
      [] p.kind = "Number" -> NumLen(p.num)
      [] p.kind = "String" -> 2 + StrLen(p.str)
      [] p.kind = "BadNumber" -> 2
      [] p.kind = "Error" -> 1
      [] p.kind = "Comment" -> 4
      [] p.kind = "Array" ->
            2 + SumSeq([i \in 1..Len(p.items) |-> PWidth(p.items[i])])
              + (IF Len(p.items) > 1 THEN Len(p.items) - 1 ELSE 0)
      [] p.kind = "Object" ->
            2 + SumSeq([i \in 1..Len(p.pairs) |-> PWidth(p.pairs[i])])
              + (IF Len(p.pairs) > 1 THEN Len(p.pairs) - 1 ELSE 0)
      [] p.kind = "Pair" -> 2 + StrLen(p.key) + 1 + PWidth(p.val)
      [] p.kind = "PairNumKey" -> 1 + 1 + PWidth(p.val)

Leaf(kind, at, w) == [kind |-> kind, start |-> at, end |-> at + w]

\* the byte offset at which child i of a bracketed list starts
ChildAt(ps, i, at) ==
    at + 1 + SumSeq([j \in 1..(i - 1) |-> PWidth(ps[j]) + 1])

RECURSIVE Cst(_, _)
Cst(p, at) ==
    LET w == PWidth(p)
        \* children of a bracketed list: open, child, comma, child, ..., close
        Bracketed(ps, open, close) ==
            << Leaf(open, at, 1) >>
            \o [k \in 1..(IF Len(ps) = 0 THEN 0 ELSE 2 * Len(ps) - 1) |->
                    IF k % 2 = 1
                    THEN Cst(ps[(k + 1) \div 2], ChildAt(ps, (k + 1) \div 2, at))
                    ELSE Leaf(",", ChildAt(ps, (k \div 2) + 1, at) - 1, 1)]
            \o << Leaf(close, at + w - 1, 1) >>
    IN
    CASE p.kind = "Null" -> Leaf("null", at, w)
      [] p.kind = "Bool" -> Leaf(IF p.b THEN "true" ELSE "false", at, w)
      [] p.kind = "Number" ->
            [kind |-> "number", start |-> at, end |-> at + w,
             parsed |-> Some(p.num)]
      [] p.kind = "BadNumber" ->
            [kind |-> "number", start |-> at, end |-> at + w, parsed |-> None]
      [] p.kind = "String" ->
            [kind |-> "string", start |-> at, end |-> at + w, content |-> p.str]
      [] p.kind = "Error" -> Leaf("ERROR", at, w)
      [] p.kind = "Comment" -> Leaf("comment", at, w)
      [] p.kind = "Array" ->
            [kind |-> "array", start |-> at, end |-> at + w,
             children |-> Bracketed(p.items, "[", "]")]
      [] p.kind = "Object" ->
            [kind |-> "object", start |-> at, end |-> at + w,
             children |-> Bracketed(p.pairs, "{", "}")]
      [] p.kind = "Pair" ->
            LET k == [kind |-> "string", start |-> at,
                      end |-> at + 2 + StrLen(p.key), content |-> p.key]
                v == Cst(p.val, at + 2 + StrLen(p.key) + 1)
            IN [kind |-> "pair", start |-> at, end |-> at + w,
                key |-> Some(k), value |-> Some(v), named |-> << k, v >>]
      [] p.kind = "PairNumKey" ->
            LET k == [kind |-> "number", start |-> at, end |-> at + 1,
                      parsed |-> Some(10)]
                v == Cst(p.val, at + 2)
            IN [kind |-> "pair", start |-> at, end |-> at + w,
                key |-> Some(k), value |-> Some(v), named |-> << k, v >>]

\* the root node of the tree of a document that holds the one value p
Document(p) ==
    [kind |-> "document", start |-> 0, end |-> PWidth(p),
     children |-> << Cst(p, 0) >>]

\* the root node of the tree of an empty source
EmptyDocument == [kind |-> "document", start |-> 0, end |-> 0, children |-> << >>]

----------------------------------------------------------------------------
(* deval-format-json                                                       *)

JsonFile == "test.json"

json_make_span(node, filename) == Span(filename, node.start, node.end)

json_make_span_vec(node, filename) == << json_make_span(node, filename) >>

ParseError(message, span) == [message |-> message, span |-> span]

\* parse_string_value: None with an error when the node is no string
parse_string_value(node, errors) ==
    IF node.kind # "string"
    THEN [val |-> None,
          errors |-> Append(errors, ParseError("Expected string",
                                               json_make_span(node, "foo")))]
    ELSE [val |-> Some(node.content), errors |-> errors]

\* child_by_field_name(field).or_else(|| named_child(i))
FieldOrNamed(field, named, i) ==
    IF field # None THEN field
    ELSE IF Len(named) > i THEN Some(named[i + 1]) ELSE None

RECURSIVE json_parse_value(_, _, _)
json_parse_value(node, filename, errors) ==
    LET \* the loop over the children of an array: `?` leaves at the first None
        ArrayLoop[i \in 1..(Len(node.children) + 1)] ==
            \* the state after the first i - 1 children
            IF i = 1 THEN [ret |-> FALSE, children |-> << >>, errors |-> errors]
            ELSE
              LET prev == ArrayLoop[i - 1]
                  child == node.children[i - 1]
              IN IF prev.ret THEN prev
                 ELSE IF child.kind \in {"[", ",", "]"} THEN prev
                 ELSE LET r == json_parse_value(child, filename, prev.errors)
                      IN IF r.val = None
                         THEN [ret |-> TRUE, children |-> prev.children,
                               errors |-> r.errors]
                         ELSE [ret |-> FALSE,
                               children |-> Append(prev.children,
                                   [value |-> r.val[1],
                                    annotation |-> json_make_span_vec(child, filename)]),
                               errors |-> r.errors]
        ObjectLoop[i \in 1..(Len(node.children) + 1)] ==
            IF i = 1 THEN [ret |-> FALSE, pairs |-> << >>, errors |-> errors]
            ELSE
              LET prev == ObjectLoop[i - 1]
                  child == node.children[i - 1]
                  Return(es) == [ret |-> TRUE, pairs |-> prev.pairs, errors |-> es]
              IN IF prev.ret THEN prev
                 ELSE IF child.kind = "pair" THEN
                    LET key_node == FieldOrNamed(child.key, child.named, 0)
                        value_node == FieldOrNamed(child.value, child.named, 1)
                    IN IF key_node = None \/ value_node = None
                       THEN Return(prev.errors)
                       ELSE
                         LET key == parse_string_value(key_node[1], prev.errors)
                         IN IF key.val = None THEN Return(key.errors)
                            ELSE
                              LET value == json_parse_value(value_node[1], filename,
                                                            key.errors)
                              IN IF value.val = None THEN Return(value.errors)
                                 ELSE [ret |-> FALSE,
                                       pairs |-> Append(prev.pairs,
                                          << [value |-> key.val[1],
                                              annotation |->
                                                json_make_span_vec(key_node[1], filename)],
                                             [value |-> value.val[1],
                                              annotation |->
                                                json_make_span_vec(value_node[1], filename)] >>),
                                       errors |-> value.errors]
                 ELSE IF child.kind \in {"{", ",", "}"} THEN prev
                 ELSE IF child.kind = "ERROR"
                 THEN Return(Append(prev.errors,
                          ParseError("Failed to parse json:",
                                     json_make_span(child, filename))))
                 ELSE Return(Append(prev.errors,
                          ParseError("Unexpected node type",
                                     json_make_span(child, filename))))
    IN
    CASE node.kind = "null" -> [val |-> Some([kind |-> "Null"]), errors |-> errors]
      [] node.kind \in {"false", "true"} ->
            [val |-> Some([kind |-> "Bool", b |-> (node.kind = "true"),
                           annotation |-> json_make_span_vec(node, filename)]),
             errors |-> errors]
      [] node.kind = "number" ->
            IF node.parsed # None
            THEN [val |-> Some([kind |-> "Number", num |-> node.parsed[1],
                                annotation |-> json_make_span_vec(node, filename)]),
                  errors |-> errors]
            ELSE [val |-> None,
                  errors |-> Append(errors,
                      ParseError("Failed to parse number",
                                 json_make_span(node, filename)))]
      [] node.kind = "string" ->
            [val |-> Some([kind |-> "String", str |-> node.content,
                           annotation |-> json_make_span_vec(node, filename)]),
             errors |-> errors]
      [] node.kind = "array" ->
            LET end == ArrayLoop[Len(node.children) + 1]
            IN IF end.ret THEN [val |-> None, errors |-> end.errors]
               ELSE [val |-> Some([kind |-> "Array", items |-> end.children]),
                     errors |-> end.errors]
      [] node.kind = "object" ->
            LET end == ObjectLoop[Len(node.children) + 1]
            IN IF end.ret THEN [val |-> None, errors |-> end.errors]
               ELSE [val |-> Some([kind |-> "Object", pairs |-> end.pairs]),
                     errors |-> end.errors]
      [] node.kind = "document" ->
            \* node.child(0).unwrap(): only reached with a child, see Json_parse
            json_parse_value(node.children[1], filename, errors)
      [] OTHER ->
            [val |-> None,
             errors |-> Append(errors,
                 ParseError("Unexpected node type", json_make_span(node, filename)))]

\* the result of a parse call
Ok(v) == [tag |-> "Ok", value |-> v]
Err(es) == [tag |-> "Err", errors |-> es]
Panic == [tag |-> "Panic"]

\* the next mutant forgets the errors parse_value recorded
Json_result_dropping_errors(val, errors, root_node, filename) ==
    IF val # None
    THEN Ok([value |-> val[1], annotation |-> json_make_span_vec(root_node, filename)])
    ELSE Err(<< >>)

\* Json::parse, after parse_value: errors win, else the value, else Err(vec![])
Json_result(val, errors, root_node, filename) ==
    IF errors # << >> THEN Err(errors)
    ELSE IF val # None
    THEN Ok([value |-> val[1], annotation |-> json_make_span_vec(root_node, filename)])
    ELSE Err(<< >>)

\* Json::parse of the source whose tree has the root root_node
Json_parse(root_node, filename) ==
    IF root_node.kind = "document" /\ root_node.children = << >>
    THEN Panic
    ELSE LET r == json_parse_value(root_node, filename, << >>)
         IN Json_result(r.val, r.errors, root_node, filename)

----------------------------------------------------------------------------
(* deval-data-model: lifting a spanned tree to a fully annotated tree.     *)

FullAnnotation(span, docs, semantic_type) ==
    [span |-> span, docs |-> docs, semantic_type |-> semantic_type]

\* From<Spanned<A>> for Annotated<B, FullAnnotation>, on the annotation
lift_annotation(spanset) == FullAnnotation(spanset, "", None)

\* a lifting that would leave the semantic type unset
with_semnatic_type_unset(annotation, semnatic) == annotation

\* with_semnatic_type
with_semnatic_type(annotation, semnatic) ==
    [annotation EXCEPT !.semantic_type = Some(semnatic)]

\* From<SpannedData> for AnnotatedData<FullAnnotation>
RECURSIVE from_spanned_data(_)
from_spanned_data(value) ==
    CASE value.kind = "Null" -> [kind |-> "Null"]
      [] value.kind = "Bool" ->
            [kind |-> "Bool", b |-> value.b,
             annotation |-> lift_annotation(value.annotation)]
      [] value.kind = "Number" ->
            [kind |-> "Number", num |-> value.num,
             annotation |-> with_semnatic_type(lift_annotation(value.annotation),
                                               "Number")]
      [] value.kind = "String" ->
            [kind |-> "String", str |-> value.str,
             annotation |-> with_semnatic_type(lift_annotation(value.annotation),
                                               "String")]
      [] value.kind = "Array" ->
            [kind |-> "Array",
             items |-> [i \in 1..Len(value.items) |->
                          [value |-> from_spanned_data(value.items[i].value),
                           annotation |-> lift_annotation(value.items[i].annotation)]]]
      [] value.kind = "Object" ->
            [kind |-> "Object",
             pairs |-> [i \in 1..Len(value.pairs) |->
                          << [value |-> value.pairs[i][1].value,
                              annotation |->
                                with_semnatic_type(
                                    lift_annotation(value.pairs[i][1].annotation),
                                    "Variable")],
                             [value |-> from_spanned_data(value.pairs[i][2].value),
                              annotation |->
                                lift_annotation(value.pairs[i][2].annotation)] >>]]

\* Spanned<SpannedData>::into()
into(data) ==
    [value |-> from_spanned_data(data.value),
     annotation |-> lift_annotation(data.annotation)]

\* SpannedData::kind
kind(value) == value.kind

----------------------------------------------------------------------------
(* deval-validator                                                         *)

AnyValidator == [kind |-> "Any"]
LambdaValidator(pred) == [kind |-> "Lambda", pred |-> pred]
NumberValidator == [kind |-> "Number"]
ArrayValidator(element) == [kind |-> "Array", element |-> element]
ObjectValidator(records) == [kind |-> "Object", records |-> records]
OrValidator(cases) == [kind |-> "Or", cases |-> cases]

\* the records an ObjectValidator is built from (deval-schema, compile_ast)
SimpleKey(key, docs, value, optional) ==
    [kind |-> "SimpleKey", key |-> key, docs |-> docs, value |-> value,
     optional |-> optional]
AnyKey == [kind |-> "AnyKey"]

ValidationError(span, text) == [span |-> span, text |-> text]

\* a ValidationResult; a call that panics returns none
ValidationResult(result, errors) ==
    [tag |-> "Ok", result |-> result, errors |-> errors]
ValidationPanic == [tag |-> "Panic"]

\* ValidationResult::ok
ok(result) == ValidationResult(result, << >>)

\* the closures of default_env, by the name they are bound to: Some(text)
\* when the value is refused
default_env_closure(name, d) ==
    CASE name = "string" ->
            IF d.value.kind # "String"
            THEN Some(<< "Expected String, found", kind(d.value) >>) ELSE None
      [] name = "number" ->
            IF d.value.kind # "Number"
            THEN Some(<< "Expected Number, found", kind(d.value) >>) ELSE None
      [] name = "integer" ->
            IF ~(d.value.kind = "Number" /\ d.value.num % 10 = 0)
            THEN Some(<< "Expected Integer, found", kind(d.value) >>) ELSE None
      [] name = "null" ->
            IF d.value.kind # "Null"
            THEN Some(<< "Expected Null, found", kind(d.value) >>) ELSE None
      [] name = "bool" ->
            IF d.value.kind # "Bool"
            THEN Some(<< "Expected Bool, found", kind(d.value) >>) ELSE None
      [] name = "any" -> None

\* the names an ObjectValidator's entries carry: an AnyKey entry has none
NamedRecords(records) == SelectSeq(records, LAMBDA r : r.kind = "SimpleKey")

\* ObjectValidator::mandatory_keys: the key of every entry
mandatory_keys(records) ==
    LET named == NamedRecords(records)
    IN [i \in 1..Len(named) |-> named[i].key]

\* ObjectValidator::find_validator: the first entry whose key is `key`
find_validator(records, key) ==
    LET named == NamedRecords(records)
        hits == { i \in 1..Len(named) : named[i].key = key }
    IN IF hits = {} THEN None
       ELSE Some(named[CHOOSE i \in hits : \A j \in hits : i <= j])

\* the next mutant prefers the later of two results with equally many errors
min_by_key_last(results) ==
    LET Best[i \in 1..Len(results)] ==
            IF i = 1 THEN results[1]
            ELSE IF Len(results[i].errors) <= Len(Best[i - 1].errors)
                 THEN results[i] ELSE Best[i - 1]
    IN IF results = << >> THEN None ELSE Some(Best[Len(results)])

\* Iterator::min_by_key(|x| x.errors.len()): the first of the minimal results
min_by_key(results) ==
    LET Best[i \in 1..Len(results)] ==
            IF i = 1 THEN results[1]
            ELSE IF Len(results[i].errors) < Len(Best[i - 1].errors)
                 THEN results[i] ELSE Best[i - 1]
    IN IF results = << >> THEN None ELSE Some(Best[Len(results)])

\* the next mutant reports a duplicate at the first occurrence of the key
duplicate_span_first(key_values, i) ==
    LET first == CHOOSE j \in 1..i : key_values[j][1].value = key_values[i][1].value
    IN primary(key_values[first][1].annotation)

\* where a duplicate of the key of pair i is reported: key.annotation.primary()
duplicate_span(key_values, i) == primary(key_values[i][1].annotation)

\* the next mutant puts each validated pair in front of the earlier ones
push_front(result, pair) == << pair >> \o result

\* result.push(pair)
push(result, pair) == Append(result, pair)

RECURSIVE validate(_, _)
validate(v, data) ==
    CASE v.kind = "Any" -> ok(into(data))
      [] v.kind = "Lambda" ->
            LET span == primary(data.annotation)
                text == default_env_closure(v.pred, data)
            IN IF text # None
               THEN ValidationResult(into(data),
                                     << ValidationError(span, text[1]) >>)
               ELSE ok(into(data))
      [] v.kind = "Number" ->
            IF data.value.kind # "Number"
            THEN ValidationResult(into(data),
                    << ValidationError(primary(data.annotation),
                          << "Expected Number, found", kind(data.value) >>) >>)
            ELSE ok(into(data))
      [] v.kind = "Array" ->
            IF data.value.kind # "Array"
            THEN ValidationResult(into(data),
                    << ValidationError(primary(data.annotation),
                          << "Expected Object, found", kind(data.value) >>) >>)
            ELSE
              LET items == data.value.items
                  \* the state after the first i - 1 elements
                  Loop[i \in 1..(Len(items) + 1)] ==
                      IF i = 1
                      THEN [panic |-> FALSE, items |-> << >>, errors |-> << >>]
                      ELSE LET prev == Loop[i - 1]
                           IN IF prev.panic THEN prev
                              ELSE LET r == validate(v.element, items[i - 1])
                                   IN IF r.tag = "Panic"
                                      THEN [prev EXCEPT !.panic = TRUE]
                                      ELSE [panic |-> FALSE,
                                            items |-> Append(prev.items, r.result),
                                            errors |-> prev.errors \o r.errors]
                  end == Loop[Len(items) + 1]
              IN IF end.panic THEN ValidationPanic
                 ELSE ValidationResult(
                        [value |-> [kind |-> "Array", items |-> end.items],
                         annotation |-> FullAnnotation(data.annotation, "", None)],
                        end.errors)
      [] v.kind = "Object" ->
            IF data.value.kind # "Object"
            THEN ValidationResult(into(data),
                    << ValidationError(primary(data.annotation),
                          << "Expected Object, found", kind(data.value) >>) >>)
            ELSE
              LET key_values == data.value.pairs
                  Loop[i \in 1..(Len(key_values) + 1)] ==
                      IF i = 1
                      THEN [panic |-> FALSE, result |-> << >>, errors |-> << >>,
                            visited_keys |-> {}]
                      ELSE
                        LET prev == Loop[i - 1]
                            key == key_values[i - 1][1]
                            value == key_values[i - 1][2]
                            errors1 ==
                                IF key.value \in prev.visited_keys
                                THEN Append(prev.errors,
                                        ValidationError(
                                            duplicate_span(key_values, i - 1),
                                            << "Duplicate key", key.value >>))
                                ELSE prev.errors
                            visited == prev.visited_keys \cup { key.value }
                            found == find_validator(v.records, key.value)
                        IN IF prev.panic THEN prev
                           ELSE IF found = None
                           THEN [panic |-> FALSE, result |-> prev.result,
                                 errors |-> Append(errors1,
                                     ValidationError(primary(key.annotation),
                                         << "Unexpected key", key.value >>)),
                                 visited_keys |-> visited]
                           ELSE
                             LET r == validate(found[1].value, value)
                                 annotated_key ==
                                     [value |-> key.value,
                                      annotation |->
                                        FullAnnotation(key.annotation, found[1].docs,
                                                       Some("Variable"))]
                             IN IF r.tag = "Panic"
                                THEN [prev EXCEPT !.panic = TRUE]
                                ELSE [panic |-> FALSE,
                                      result |-> push(prev.result,
                                                      << annotated_key, r.result >>),
                                      errors |-> errors1 \o r.errors,
                                      visited_keys |-> visited]
                  end == Loop[Len(key_values) + 1]
                  mandatory == mandatory_keys(v.records)
                  missing == SelectSeq(mandatory,
                                       LAMBDA k : k \notin end.visited_keys)
              IN IF end.panic THEN ValidationPanic
                 ELSE ValidationResult(
                        [value |-> [kind |-> "Object", pairs |-> end.result],
                         annotation |-> FullAnnotation(data.annotation, "", None)],
                        end.errors
                        \o [i \in 1..Len(missing) |->
                              ValidationError(primary(data.annotation),
                                              << "Missing key", missing[i] >>)])
      [] v.kind = "Or" ->
            LET results == [i \in 1..Len(v.cases) |-> validate(v.cases[i], data)]
            IN IF \E i \in 1..Len(results) : results[i].tag = "Panic"
               THEN ValidationPanic
               ELSE LET best == min_by_key(results)
                    IN \* .unwrap()
                       IF best = None THEN ValidationPanic ELSE best[1]

----------------------------------------------------------------------------
(* deval-schema-ast: the expressions deval_schema_parser::parse returns.   *)

Ident(name) == [kind |-> "Ident", name |-> name]
Number(n) == [kind |-> "Number", n |-> n]
Range(start, end, is_inclusive) ==
    [kind |-> "Range", start |-> start, end |-> end, is_inclusive |-> is_inclusive]
Array(element, index) == [kind |-> "Array", element |-> element, index |-> index]
Object(record_matchers) == [kind |-> "Object", records |-> record_matchers]
Union(cases) == [kind |-> "Union", cases |-> cases]

\* RecordMatcher::SimpleKey and RecordMatcher::AnyKey
MatchKey(key, optional, docs, value) ==
    [kind |-> "SimpleKey", key |-> key, optional |-> optional, docs |-> docs,
     value |-> value]
MatchAnyKey == [kind |-> "AnyKey"]

----------------------------------------------------------------------------
(* deval-schema: the compiler from expressions to validators.              *)

\* the names default_env binds
default_env == { "string", "number", "integer", "null", "bool", "any" }

\* a Value, or the Err compile_ast returns, or a panic (todo!())
ValueNumber(n) == [tag |-> "Number", n |-> n]
ValueRange(start, end, is_inclusive) ==
    [tag |-> "Range", start |-> start, end |-> end, is_inclusive |-> is_inclusive]
ValueValidator(v) == [tag |-> "Validator", validator |-> v]
CompileErr(reason, name) == [tag |-> "Err", reason |-> reason, name |-> name]
CompilePanic == [tag |-> "Panic"]

\* Value::to_validator
to_validator(value) ==
    CASE value.tag = "Number" -> CompilePanic
      [] value.tag = "Range" -> CompilePanic
      [] value.tag = "Validator" -> value

\* the first element of a sequence of results that is no validator, if any
FirstFailure(rs) ==
    LET bad == { i \in 1..Len(rs) : rs[i].tag # "Validator" }
    IN IF bad = {} THEN None
       ELSE Some(rs[CHOOSE i \in bad : \A j \in bad : i <= j])

RECURSIVE compile_ast(_)
RECURSIVE eval_as_validator(_)
RECURSIVE eval_as_number(_)

\* eval_as_validator: compile_ast(ast)?.to_validator()
eval_as_validator(ast) ==
    LET value == compile_ast(ast)
    IN IF value.tag \in {"Err", "Panic"} THEN value ELSE to_validator(value)

\* eval_as_number
eval_as_number(ast) ==
    LET value == compile_ast(ast)
    IN CASE value.tag \in {"Err", "Panic"} -> value
         [] value.tag = "Number" -> value
         [] OTHER -> CompileErr("Unknown ident", "")

compile_ast(ast) ==
    CASE ast.kind = "Number" -> ValueNumber(ast.n)
      [] ast.kind = "Range" ->
            LET start == IF ast.start = None THEN None
                         ELSE Some(eval_as_number(ast.start[1]))
                end == IF ast.end = None THEN None
                       ELSE Some(eval_as_number(ast.end[1]))
            IN IF start # None /\ start[1].tag # "Number" THEN start[1]
               ELSE IF end # None /\ end[1].tag # "Number" THEN end[1]
               ELSE ValueRange(IF start = None THEN None ELSE Some(start[1].n),
                               IF end = None THEN None ELSE Some(end[1].n),
                               ast.is_inclusive)
      [] ast.kind = "Ident" ->
            IF ast.name \in default_env
            THEN ValueValidator(LambdaValidator(ast.name))
            ELSE CompileErr("Unknown ident", ast.name)
      [] ast.kind = "Array" ->
            LET element == eval_as_validator(ast.element)
            IN IF element.tag # "Validator" THEN element
               ELSE ValueValidator(ArrayValidator(element.validator))
      [] ast.kind = "Object" ->
            LET rs == [i \in 1..Len(ast.records) |->
                         IF ast.records[i].kind = "SimpleKey"
                         THEN eval_as_validator(ast.records[i].value)
                         ELSE ValueValidator(AnyValidator)]
                failure == FirstFailure(rs)
            IN IF failure # None THEN failure[1]
               ELSE ValueValidator(ObjectValidator(
                      [i \in 1..Len(ast.records) |->
                         IF ast.records[i].kind = "SimpleKey"
                         THEN SimpleKey(ast.records[i].key, ast.records[i].docs,
                                        rs[i].validator, ast.records[i].optional)
                         ELSE AnyKey]))
      [] ast.kind = "Union" ->
            LET rs == [i \in 1..Len(ast.cases) |-> eval_as_validator(ast.cases[i])]
                failure == FirstFailure(rs)
            IN IF failure # None THEN failure[1]
               ELSE ValueValidator(OrValidator(
                      [i \in 1..Len(rs) |-> rs[i].validator]))

\* a schema source: the text stands for what deval_schema_parser::parse
\* makes of it, an expression or parse errors
SchemaSource(ast) == [parse |-> "Ok", ast |-> ast]
SchemaSyntaxError == [parse |-> "Err"]

\* compile: parse(source)?, then eval_as_validator
compile(source) ==
    IF source.parse = "Err" THEN CompileErr("parse", "")
    ELSE eval_as_validator(source.ast)

----------------------------------------------------------------------------
(* Text, for the TOML front end: a text is a sequence of one-character     *)
(* strings, so that split, find and slicing are computed.                  *)

Chars(s) ==
    CASE s = "key" -> << "k", "e", "y" >>
      [] s = "a" -> << "a" >>
      [] s = "x" -> << "x" >>
      [] s = "y" -> << "y" >>
      [] s = "s" -> << "s" >>
      [] OTHER -> << "?" >>

KnownTexts == { "key", "a", "x", "y", "s" }

\* str::to_string on a slice of the source
chars_to_string(cs) ==
    IF \E s \in KnownTexts : Chars(s) = cs
    THEN CHOOSE s \in KnownTexts : Chars(s) = cs
    ELSE "?"

\* s[from..], 0-based
Slice(cs, from) == SubSeq(cs, from + 1, Len(cs))

\* str::starts_with, str::ends_with
StartsWith(cs, pre) == Len(cs) >= Len(pre) /\ SubSeq(cs, 1, Len(pre)) = pre
EndsWith(cs, suf) ==
    Len(cs) >= Len(suf) /\ SubSeq(cs, Len(cs) - Len(suf) + 1, Len(cs)) = suf

\* str::find: the 0-based offset of the first occurrence of needle
Find(hay, needle) ==
    LET hits == { p \in 0..(Len(hay) - Len(needle)) :
                    SubSeq(hay, p + 1, p + Len(needle)) = needle }
    IN IF hits = {} THEN None
       ELSE Some(CHOOSE p \in hits : \A q \in hits : p <= q)

\* str::split('.')
RECURSIVE Split(_)
Split(cs) ==
    LET dots == { i \in 1..Len(cs) : cs[i] = "." }
    IN IF dots = {} THEN << cs >>
       ELSE LET d == CHOOSE i \in dots : \A j \in dots : i <= j
            IN << SubSeq(cs, 1, d - 1) >> \o Split(SubSeq(cs, d + 1, Len(cs)))

\* the parts of a dotted key written out: a.b.c
RECURSIVE Join(_)
Join(parts) ==
    IF Len(parts) = 1 THEN Chars(parts[1])
    ELSE Chars(parts[1]) \o << "." >> \o Join(Tail(parts))

----------------------------------------------------------------------------
(* The concrete-syntax tree tree-sitter hands to the TOML front end: the   *)
(* top-level nodes of a document with one node per line group.             *)

\* `k = 1`, `k = "s"`, or a pair whose value is a syntax error
TomlValueNode(val, at) ==
    CASE val = "int" ->
            [kind |-> "integer", start |-> at, end |-> at + 1,
             text |-> << "1" >>, parsed |-> Some(10)]
      [] val = "str" ->
            [kind |-> "string", start |-> at, end |-> at + 3,
             text |-> << "\"", "s", "\"" >>]
      [] val = "err" ->
            [kind |-> "ERROR", start |-> at, end |-> at + 1, text |-> << "?" >>]

TomlPairNode(k, val, at) ==
    LET klen == Len(Chars(k))
        value == TomlValueNode(val, at + klen + 3)
    IN [kind |-> "pair", start |-> at, end |-> value.end,
        children |-> << [kind |-> "bare_key", start |-> at, end |-> at + klen,
                         text |-> Chars(k)],
                        Leaf("=", at + klen + 1, 1),
                        value >>]

\* the pairs of a table body, one per line, the first starting at `at`
RECURSIVE TomlBody(_, _)
TomlBody(body, at) ==
    IF body = << >> THEN << >>
    ELSE LET first == TomlPairNode(body[1][1], body[1][2], at)
         IN << first >> \o TomlBody(Tail(body), first.end + 1)

\* `[a.b]` or `[[a.b]]` followed by the pairs of the table
TomlTableNode(kind_, path, body, at) ==
    LET open == IF kind_ = "table" THEN 1 ELSE 2
        text == Join(path)
        header_end == at + open + Len(text) + open
        pairs == TomlBody(body, header_end + 1)
    IN [kind |-> kind_, start |-> at,
        end |-> IF pairs = << >> THEN header_end ELSE pairs[Len(pairs)].end,
        is_extra |-> FALSE,
        children |->
            << Leaf(IF open = 1 THEN "[" ELSE "[[", at, open),
               [kind |-> IF Len(path) = 1 THEN "bare_key" ELSE "dotted_key",
                start |-> at + open, end |-> at + open + Len(text),
                text |-> text],
               Leaf(IF open = 1 THEN "]" ELSE "]]", at + open + Len(text), open) >>
            \o pairs]

----------------------------------------------------------------------------
(* deval-format-toml                                                       *)

TomlFile == "test.toml"

toml_make_span(node, filename) == Span(filename, node.start, node.end)

\* the next mutant gives a node no span at all
toml_make_span_vec_empty(node, filename) == << >>

toml_make_span_vec(node, filename) == << toml_make_span(node, filename) >>

\* unquote_toml_string
unquote_toml_string(text) ==
    LET q3 == << "\"", "\"", "\"" >>
        a3 == << "'", "'", "'" >>
    IN IF StartsWith(text, q3) /\ EndsWith(text, q3)
       THEN SubSeq(text, 4, Len(text) - 3)
       ELSE IF StartsWith(text, a3) /\ EndsWith(text, a3)
       THEN SubSeq(text, 4, Len(text) - 3)
       ELSE IF StartsWith(text, << "\"" >>) /\ EndsWith(text, << "\"" >>)
       THEN SubSeq(text, 2, Len(text) - 1)
       ELSE IF StartsWith(text, << "'" >>) /\ EndsWith(text, << "'" >>)
       THEN SubSeq(text, 2, Len(text) - 1)
       ELSE text

\* parse_value, on the value kinds the documents use
toml_parse_value(node, filename, errors) ==
    IF node.kind = "ERROR"
    THEN [val |-> None,
          errors |-> Append(errors, ParseError("Syntax error in value.",
                                               toml_make_span(node, filename)))]
    ELSE CASE node.kind = "string" ->
                [val |-> Some([kind |-> "String",
                               str |-> chars_to_string(unquote_toml_string(node.text)),
                               annotation |-> toml_make_span_vec(node, filename)]),
                 errors |-> errors]
           [] node.kind \in {"integer", "float"} ->
                IF node.parsed # None
                THEN [val |-> Some([kind |-> "Number", num |-> node.parsed[1],
                                    annotation |-> toml_make_span_vec(node, filename)]),
                      errors |-> errors]
                ELSE [val |-> None,
                      errors |-> Append(errors,
                          ParseError("Failed to parse number",
                                     toml_make_span(node, filename)))]
           [] OTHER ->
                [val |-> None,
                 errors |-> Append(errors,
                     ParseError("Unexpected TOML value node type",
                                toml_make_span(node, filename)))]

\* parse_pair: None without an error when child 0 or child 2 is absent
parse_pair(pair_node, filename, errors) ==
    IF Len(pair_node.children) < 3 THEN [val |-> None, errors |-> errors]
    ELSE LET key_node == pair_node.children[1]
             value_node == pair_node.children[3]
             key_text == chars_to_string(unquote_toml_string(key_node.text))
             value_data == toml_parse_value(value_node, filename, errors)
         IN IF value_data.val = None
            THEN [val |-> None, errors |-> value_data.errors]
            ELSE [val |-> Some(<< [value |-> key_text,
                                   annotation |->
                                     toml_make_span_vec(key_node, filename)],
                                  [value |-> value_data.val[1],
                                   annotation |->
                                     toml_make_span_vec(value_node, filename)] >>),
                  errors |-> value_data.errors]

\* extract_individual_key_spans: one span per part of the path, found in
\* the text of the header's key
extract_individual_key_spans(table_header_node, filename, path) ==
    IF Len(table_header_node.children) < 2
    THEN [i \in 1..Len(path) |-> toml_make_span(table_header_node, filename)]
    ELSE
      LET key_node == table_header_node.children[2]
          key_text == key_node.text
          key_start == key_node.start
          \* the state after the first i - 1 parts
          Loop[i \in 1..(Len(path) + 1)] ==
              IF i = 1 THEN [spans |-> << >>, current_pos |-> 0]
              ELSE LET prev == Loop[i - 1]
                       key_part == path[i - 1]
                       pos == Find(Slice(key_text, prev.current_pos), key_part)
                   IN IF pos # None
                      THEN LET absolute_pos == prev.current_pos + pos[1]
                               start == key_start + absolute_pos
                               after == absolute_pos + Len(key_part)
                           IN [spans |-> Append(prev.spans,
                                   Span(filename, start, start + Len(key_part))),
                               current_pos |->
                                   IF after < Len(key_text)
                                      /\ StartsWith(Slice(key_text, after), << "." >>)
                                   THEN after + 1 ELSE after]
                      ELSE [spans |-> Append(prev.spans,
                                toml_make_span(table_header_node, filename)),
                            current_pos |-> prev.current_pos]
      IN Loop[Len(path) + 1].spans

\* a search that would never find a key
position_none(pairs, key) == None

\* the index of the first pair whose key is `key`: Iterator::position
position(pairs, key) ==
    LET hits == { i \in 1..Len(pairs) : pairs[i][1].value = key }
    IN IF hits = {} THEN None
       ELSE Some(CHOOSE i \in hits : \A j \in hits : i <= j)

\* key_spans.get(i).cloned().unwrap_or(make_span(table_header_node, filename))
SpanOrHeader(key_spans, i, table_header_node, filename) ==
    IF i <= Len(key_spans) THEN key_spans[i]
    ELSE toml_make_span(table_header_node, filename)

\* the next mutant replaces the spans of a revisited key by the new one
add_span_replacing(spanset, key_span) == << key_span >>

\* annotation.0.push(key_span)
add_span(spanset, key_span) == Append(spanset, key_span)

\* get_or_insert_table from part i of the path on, under `current_data`.
\* Returns current_data as the walk leaves it, the errors, and where the
\* final table's pairs are: the steps from current_data down to them.
RECURSIVE walk_tables(_, _, _, _, _, _, _)
walk_tables(current_data, path, i, key_spans, table_header_node, filename, errors) ==
    IF i > Len(path)
    THEN IF current_data.kind = "Object"
         THEN [data |-> current_data, errors |-> errors, target |-> Some(<< >>)]
         ELSE [data |-> current_data,
               errors |-> Append(errors,
                   ParseError("Cannot define table",
                              toml_make_span(table_header_node, filename))),
               target |-> None]
    ELSE IF current_data.kind # "Object"
    THEN [data |-> current_data,
          errors |-> Append(errors,
              ParseError("Cannot define table",
                         toml_make_span(table_header_node, filename))),
          target |-> None]
    ELSE
      LET current_table_pairs == current_data.pairs
          key == chars_to_string(path[i])
          found_index == position(current_table_pairs, key)
          key_span == SpanOrHeader(key_spans, i, table_header_node, filename)
      IN IF found_index # None
         THEN LET index == found_index[1]
                  found_key == current_table_pairs[index][1]
                  found_value == current_table_pairs[index][2]
                  key1 == IF ~table_header_node.is_extra
                          THEN [found_key EXCEPT
                                  !.annotation = add_span(@, key_span)]
                          ELSE found_key
                  ann1 == IF ~table_header_node.is_extra
                          THEN add_span(found_value.annotation, key_span)
                          ELSE found_value.annotation
                  sub == walk_tables(found_value.value, path, i + 1, key_spans,
                                     table_header_node, filename, errors)
              IN [data |-> [current_data EXCEPT
                              !.pairs[index] =
                                 << key1, [value |-> sub.data, annotation |-> ann1] >>],
                  errors |-> sub.errors,
                  target |-> IF sub.target = None THEN None
                             ELSE Some(<< << "pair", index >> >> \o sub.target[1])]
         ELSE LET new_spanned_key ==
                      [value |-> key, annotation |-> << key_span >>]
                  sub == walk_tables([kind |-> "Object", pairs |-> << >>], path,
                                     i + 1, key_spans, table_header_node,
                                     filename, errors)
                  index == Len(current_table_pairs) + 1
              IN [data |-> [current_data EXCEPT
                              !.pairs = Append(@,
                                 << new_spanned_key,
                                    [value |-> sub.data,
                                     annotation |->
                                       toml_make_span_vec(table_header_node,
                                                          filename)] >>)],
                  errors |-> sub.errors,
                  target |-> IF sub.target = None THEN None
                             ELSE Some(<< << "pair", index >> >> \o sub.target[1])]

\* get_or_insert_table
get_or_insert_table(current_data, path, table_header_node, filename, errors) ==
    walk_tables(current_data, path, 1,
                extract_individual_key_spans(table_header_node, filename, path),
                table_header_node, filename, errors)

\* the data a target names: a step enters the value of a pair or an element
RECURSIVE DataAt(_, _)
DataAt(data, target) ==
    IF target = << >> THEN data
    ELSE IF target[1][1] = "pair"
    THEN DataAt(data.pairs[target[1][2]][2].value, Tail(target))
    ELSE DataAt(data.items[target[1][2]].value, Tail(target))

\* data with the pairs of the object a target names replaced
RECURSIVE WithPairsAt(_, _, _)
WithPairsAt(data, target, pairs) ==
    IF target = << >> THEN [data EXCEPT !.pairs = pairs]
    ELSE IF target[1][1] = "pair"
    THEN [data EXCEPT !.pairs[target[1][2]][2].value =
                          WithPairsAt(@, Tail(target), pairs)]
    ELSE [data EXCEPT !.items[target[1][2]].value =
                          WithPairsAt(@, Tail(target), pairs)]

\* append_to_array_of_tables, once the parent table is found: `parent` is
\* what get_or_insert_table returned for the path without its last part
append_to_parent(parent, path, array_header_node, filename) ==
    LET array_key == chars_to_string(path[Len(path)])
        table_path == SubSeq(path, 1, Len(path) - 1)
    IN IF parent.target = None THEN parent
       ELSE
         LET parent_table == DataAt(parent.data, parent.target[1]).pairs
             found_index == position(parent_table, array_key)
             key_spans == extract_individual_key_spans(array_header_node, filename,
                                                       path)
             key_span == SpanOrHeader(key_spans, Len(table_path) + 1,
                                      array_header_node, filename)
             element == [value |-> [kind |-> "Object", pairs |-> << >>],
                         annotation |->
                           toml_make_span_vec(array_header_node, filename)]
         IN IF found_index # None
            THEN LET index == found_index[1]
                     key == [parent_table[index][1] EXCEPT
                               !.annotation = add_span(@, key_span)]
                     spanned_value ==
                         [parent_table[index][2] EXCEPT
                            !.annotation = add_span(@, key_span)]
                 IN IF spanned_value.value.kind = "Array"
                    THEN LET arr == Append(spanned_value.value.items, element)
                             pairs == [parent_table EXCEPT ![index] =
                                         << key,
                                            [spanned_value EXCEPT
                                               !.value.items = arr] >>]
                         IN [data |-> WithPairsAt(parent.data, parent.target[1], pairs),
                             errors |-> parent.errors,
                             target |-> Some(parent.target[1]
                                             \o << << "pair", index >>,
                                                   << "item", Len(arr) >> >>)]
                    ELSE [data |-> WithPairsAt(parent.data, parent.target[1],
                                      [parent_table EXCEPT ![index] =
                                          << key, spanned_value >>]),
                          errors |-> Append(parent.errors,
                              ParseError("already defined as a non-array",
                                         toml_make_span(array_header_node, filename))),
                          target |-> None]
            ELSE LET index == Len(parent_table) + 1
                     pairs == Append(parent_table,
                                << [value |-> array_key,
                                    annotation |-> << key_span >>],
                                   [value |-> [kind |-> "Array",
                                               items |-> << element >>],
                                    annotation |->
                                      toml_make_span_vec(array_header_node,
                                                         filename)] >>)
                 IN [data |-> WithPairsAt(parent.data, parent.target[1], pairs),
                     errors |-> parent.errors,
                     target |-> Some(parent.target[1]
                                     \o << << "pair", index >>, << "item", 1 >> >>)]

\* an array-of-tables arm that would open a plain table instead
append_to_array_as_table(current_data, path, array_header_node, filename, errors) ==
    get_or_insert_table(current_data, path, array_header_node, filename, errors)

\* append_to_array_of_tables
append_to_array_of_tables(current_data, path, array_header_node, filename, errors) ==
    append_to_parent(
        get_or_insert_table(current_data, SubSeq(path, 1, Len(path) - 1),
                            array_header_node, filename, errors),
        path, array_header_node, filename)

\* the loop over the pairs of a table node: each parsed pair is pushed on
\* target_pairs unless its key is there already
table_pairs(node, target_pairs, filename, errors) ==
    LET Loop[i \in 1..(Len(node.children) + 1)] ==
            IF i = 1 THEN [pairs |-> target_pairs, errors |-> errors]
            ELSE LET prev == Loop[i - 1]
                     child == node.children[i - 1]
                 IN IF child.kind # "pair" THEN prev
                    ELSE LET r == parse_pair(child, filename, prev.errors)
                         IN IF r.val = None
                            THEN [pairs |-> prev.pairs, errors |-> r.errors]
                            ELSE IF position(prev.pairs, r.val[1][1].value) # None
                            THEN [pairs |-> prev.pairs,
                                  errors |-> Append(r.errors,
                                      ParseError("Duplicate key in table",
                                                 primary(r.val[1][1].annotation)))]
                            ELSE [pairs |-> Append(prev.pairs, r.val[1]),
                                  errors |-> r.errors]
    IN Loop[Len(node.children) + 1]

\* a table arm that would put the pairs of a refused table at the root
fill_table_at_root(got, node, filename) ==
    LET filled == table_pairs(node, got.data.pairs, filename, got.errors)
    IN [root |-> [got.data EXCEPT !.pairs = filled.pairs],
        errors |-> filled.errors]

\* the arm of a table node, once `got` names the table's pairs: the pairs
\* that are children of the node are parsed into them
fill_table(got, node, filename) ==
    IF got.target = None
    THEN [root |-> got.data, errors |-> got.errors]
    ELSE LET filled == table_pairs(node, DataAt(got.data, got.target[1]).pairs,
                                   filename, got.errors)
         IN [root |-> WithPairsAt(got.data, got.target[1], filled.pairs),
             errors |-> filled.errors]

\* one turn of the loop of Toml::parse over the top-level nodes: root_data
\* and errors after the node is applied
toml_top_level(root_data, errors, node, filename) ==
    CASE node.kind = "pair" ->
            LET r == parse_pair(node, filename, errors)
            IN IF r.val = None THEN [root |-> root_data, errors |-> r.errors]
               ELSE IF position(root_data.pairs, r.val[1][1].value) # None
               THEN [root |-> root_data,
                     errors |-> Append(r.errors,
                         ParseError("Duplicate key at top level",
                                    primary(r.val[1][1].annotation)))]
               ELSE [root |-> [root_data EXCEPT !.pairs = Append(@, r.val[1])],
                     errors |-> r.errors]
      [] node.kind \in {"table", "table_array_element"} ->
            IF Len(node.children) < 2
            THEN [root |-> root_data,
                  errors |-> Append(errors,
                      ParseError("Table without a name",
                                 toml_make_span(node, filename)))]
            ELSE
              LET key_node == node.children[2]
                  key_parts == Split(key_node.text)
              IN fill_table(
                    IF node.kind = "table"
                    THEN get_or_insert_table(root_data, key_parts, node,
                                             filename, errors)
                    ELSE append_to_array_of_tables(root_data, key_parts, node,
                                                   filename, errors),
                    node, filename)
      [] node.kind = "comment" -> [root |-> root_data, errors |-> errors]
      [] OTHER ->
            IF ~node.is_extra
            THEN [root |-> root_data,
                  errors |-> Append(errors,
                      ParseError("Unexpected top-level TOML node",
                                 toml_make_span(node, filename)))]
            ELSE [root |-> root_data, errors |-> errors]

\* Toml::parse, after the loop: Err(errors) unless errors is empty
Toml_result(root_data, errors, root_node, filename) ==
    IF errors # << >> THEN Err(errors)
    ELSE Ok([value |-> root_data,
             annotation |-> toml_make_span_vec(root_node, filename)])

\* the root node of a document: its top-level nodes, and whether any node
\* of the tree is a syntax error
TomlDocument(nodes, has_error) ==
    [kind |-> "document", start |-> 0,
     end |-> IF nodes = << >> THEN 0 ELSE nodes[Len(nodes)].end,
     has_error |-> has_error, children |-> nodes]

\* Toml::parse of the source whose tree has the root root_node
Toml_parse(root_node, filename) ==
    LET errors0 == IF root_node.has_error
                   THEN << ParseError("Failed to parse TOML structure",
                                      toml_make_span(root_node, filename)) >>
                   ELSE << >>
        Loop[i \in 1..(Len(root_node.children) + 1)] ==
            IF i = 1
            THEN [root |-> [kind |-> "Object", pairs |-> << >>], errors |-> errors0]
            ELSE toml_top_level(Loop[i - 1].root, Loop[i - 1].errors,
                                root_node.children[i - 1], filename)
        end == Loop[Len(root_node.children) + 1]
    IN Toml_result(end.root, end.errors, root_node, filename)

----------------------------------------------------------------------------
(* The inputs.                                                             *)

\* DVL schemas, as parsed
SchemaE ==
    Union(<< Ident("string"),
             Object(<< MatchKey("n", FALSE, "", Ident("integer")) >>) >>)
SchemaA ==
    Object(<< MatchKey("name", FALSE, "The name", Ident("string")),
              MatchKey("age", TRUE, "", Ident("integer")),
              MatchAnyKey >>)
SchemaB == Object(<< MatchKey("name", FALSE, "", Ident("string")) >>)
SchemaN == Object(<< MatchKey("n", FALSE, "doc of n", Ident("integer")) >>)

Schemas ==
    { Ident(x) : x \in default_env }
    \cup { SchemaE, SchemaA, SchemaB, SchemaN,
           Object(<< >>),
           Object(<< MatchAnyKey >>),
           Object(<< MatchKey("n", FALSE, "", Ident("integer")),
                     MatchKey("name", TRUE, "", Ident("string")) >>),
           Object(<< MatchKey("n", TRUE, "", Ident("string")),
                     MatchKey("age", FALSE, "", Ident("any")),
                     MatchAnyKey >>),
           Object(<< MatchKey("n", FALSE, "first", Ident("integer")),
                     MatchKey("n", FALSE, "second", Ident("string")) >>),
           Object(<< MatchKey("n", FALSE, "",
                        Union(<< Ident("string"), Ident("integer") >>)),
                     MatchKey("name", FALSE, "", SchemaN) >>),
           Array(Ident("integer"), None),
           Array(SchemaN, None),
           Array(Array(Ident("string"), None), None),
           Union(<< Ident("integer"), Ident("string"), Ident("null") >>),
           Union(<< SchemaN, Ident("string") >>),
           Union(<< SchemaB, SchemaN >>),
           Union(<< Array(Ident("integer"), None), Array(Ident("string"), None),
                    SchemaE >>) }

\* JSON documents
Keys == { "n", "name", "age" }
PairValues == { PNum(50), PStr("oops") }
Elements ==
    { PNum(50), PNum(25), PStr("x"),
      PObj(<< PPair("n", PNum(50)) >>), PObj(<< PPair("n", PStr("oops")) >>) }

DocOops == PObj(<< PPair("n", PStr("oops")) >>)
DocFive == PObj(<< PPair("n", PNum(50)) >>)
DocHello == PStr("hello")
DocA ==
    PObj(<< PPair("name", PStr("Ada")), PPair("age", PNum(370)),
            PPair("extra", PBool(TRUE)) >>)
DocB == PObj(<< >>)
DocC == PObj(<< PPair("name", PStr("x")), PPair("y", PNum(10)) >>)

Documents ==
    { PNull, PBool(TRUE), PBool(FALSE), PNum(50), PNum(25), DocHello }
    \cup { PObj(ps) :
             ps \in SeqUpTo({ PPair(k, v) : k \in Keys, v \in PairValues },
                            MaxPairs) }
    \cup { PArr(items) : items \in SeqUpTo(Elements, MaxItems) }
    \cup { DocA, DocC,
           PObj(<< PPair("n", PObj(<< PPair("name", PStr("x")) >>)) >>),
           PObj(<< PPair("y", PNum(10)), PPair("n", PNum(50)),
                   PPair("extra", PNull), PPair("name", DocFive) >>),
           PArr(<< PArr(<< PStr("x"), PNum(50) >>), PArr(<< >>) >>) }

\* JSON sources that do not parse as well: children that are syntax errors,
\* comments, number tokens f64 refuses, pairs keyed by a number
BrokenElements == { PNum(50), PBadNum, PError, PComment, PArr(<< PBadNum >>) }
BrokenPairs ==
    { PPair("n", PNum(50)), PPair("n", PBadNum), PPairNumKey(PNum(50)),
      PPair("n", PArr(<< PError >>)), PError, PComment }
BrokenDocuments ==
    { PBadNum, PError, PComment }
    \cup { PObj(ps) : ps \in SeqUpTo(BrokenPairs, MaxPairs) }
    \cup { PArr(items) : items \in SeqUpTo(BrokenElements, MaxItems) }

\* validators built with the validator crate's constructors
ApiValidators ==
    { AnyValidator, NumberValidator,
      OrValidator(<< >>),
      OrValidator(<< NumberValidator >>),
      OrValidator(<< NumberValidator, AnyValidator >>),
      ArrayValidator(NumberValidator),
      ArrayValidator(OrValidator(<< >>)),
      ObjectValidator(<< SimpleKey("n", "", OrValidator(<< >>), FALSE) >>),
      ObjectValidator(<< SimpleKey("n", "", NumberValidator, FALSE) >>) }
    \cup { compile(SchemaSource(schema)).validator : schema \in Schemas }

----------------------------------------------------------------------------
(* The state before any operation.                                         *)

EmptyRoot == [kind |-> "Object", pairs |-> << >>]

InitValidator == v_schema = None /\ v_data = None /\ v_res = None
InitJson == j_tree = None /\ j_res = None
InitToml ==
    t_nodes = << >> /\ t_root = EmptyRoot /\ t_errors = << >> /\ t_res = None
InitCli == cli_in = None /\ cli_out = None

\* the documents a client works on
URIs == { "a.json", "c.txt" }

\* what a client has sent for a document: whether it has opened it and
\* not closed it since, and then the text it sent last
ClientView(state, text) == [state |-> state, text |-> text]

\* start_server has not run yet
InitLsp ==
    /\ lsp_backend = None
    /\ documents = [uri \in URIs |-> None]
    /\ lsp_pending = << >>
    /\ lsp_reply = None
    /\ lsp_client = [uri \in URIs |-> ClientView("never", None)]
    /\ lsp_count = 0

\* compile has not run yet
InitSchema == s_source = None /\ s_compiled = None

\* convert has not run yet
InitConvert == c_schema = None /\ c_text = << >>

Init ==
    /\ InitValidator /\ InitJson /\ InitToml /\ InitCli /\ InitLsp
    /\ InitSchema /\ InitConvert

----------------------------------------------------------------------------
(* A validation run: the schema is compiled, the document parsed, and the  *)
(* validator applied to the parsed tree.  validate is a function of its    *)
(* arguments alone, so one run from the initial state covers every call.   *)

Validate(schema, doc) ==
    LET compiled == compile(SchemaSource(schema))
        parsed == Json_parse(Document(doc), JsonFile)
    IN /\ v_res = None
       /\ compiled.tag = "Validator"
       /\ parsed.tag = "Ok"
       /\ v_schema' = Some(compiled.validator)
       /\ v_data' = Some(parsed.value)
       /\ v_res' = Some(validate(compiled.validator, parsed.value))
       /\ UNCHANGED << j_vars, t_vars, cli_vars, s_vars, c_vars, lsp_vars >>

Next == \E schema \in Schemas, doc \in Documents : Validate(schema, doc)

Spec == Init /\ [][Next]_vars

\* the same with a validator built by hand
ValidateWith(validator, doc) ==
    LET parsed == Json_parse(Document(doc), JsonFile)
    IN /\ v_res = None
       /\ parsed.tag = "Ok"
       /\ v_schema' = Some(validator)
       /\ v_data' = Some(parsed.value)
       /\ v_res' = Some(validate(validator, parsed.value))
       /\ UNCHANGED << j_vars, t_vars, cli_vars, s_vars, c_vars, lsp_vars >>

NextApi == \E validator \in ApiValidators, doc \in Documents :
              ValidateWith(validator, doc)

SpecApi == Init /\ [][NextApi]_vars

----------------------------------------------------------------------------
(* The format front ends.  A JSON source is parsed in one step.  A TOML    *)
(* source is parsed node by node, as the loop of Toml::parse goes through  *)
(* the top-level nodes of the document, and the call returns at the end.   *)

JsonSources ==
    { DocOops, DocFive, DocHello, DocA, DocC, PNull, PArr(<< PNum(25) >>) }
    \cup BrokenDocuments

TomlKeys == { "key", "x" }
TomlValues == { "int", "err" }
TomlPaths == { << "key" >>, << "a" >>, << "key", "a" >>, << "key", "key" >> }
TomlBodies == { << >>, << << "x", "int" >> >>, << << "y", "int" >> >> }
TomlArrayBodies ==
    { << >>, << << "x", "err" >> >>, << << "x", "int" >>, << "x", "int" >> >> }
TomlOtherKinds == { "comment", "ERROR" }

\* where the next top-level node starts
NextStart == IF t_nodes = << >> THEN 0 ELSE t_nodes[Len(t_nodes)].end + 1

\* Node::has_error of the root: some node of the tree is a syntax error
TomlHasError(nodes) ==
    \E i \in 1..Len(nodes) :
        \/ nodes[i].kind = "ERROR"
        \/ /\ nodes[i].kind = "pair"
           /\ nodes[i].children[3].kind = "ERROR"
        \/ /\ nodes[i].kind \in { "table", "table_array_element" }
           /\ \E c \in 1..Len(nodes[i].children) :
                 /\ nodes[i].children[c].kind = "pair"
                 /\ nodes[i].children[c].children[3].kind = "ERROR"

JsonParse(root_node) ==
    /\ j_res = None /\ t_nodes = << >> /\ t_res = None
    /\ j_tree' = Some(root_node)
    /\ j_res' =
         Some([recorded |-> IF root_node.children = << >> THEN << >>
                            ELSE json_parse_value(root_node, JsonFile, << >>).errors,
               result |-> Json_parse(root_node, JsonFile)])
    /\ UNCHANGED << v_vars, t_vars, cli_vars, s_vars, c_vars, lsp_vars >>

\* one pass of the loop of Toml::parse over the next top-level node
TomlNode(node) ==
    LET r == toml_top_level(t_root, t_errors, node, TomlFile)
    IN /\ j_res = None /\ t_res = None
       /\ Len(t_nodes) < MaxNodes
       /\ t_nodes' = Append(t_nodes, node)
       /\ t_root' = r.root
       /\ t_errors' = r.errors
       /\ UNCHANGED << v_vars, j_vars, t_res, cli_vars, s_vars, c_vars, lsp_vars >>

TomlPair == \E k \in TomlKeys, val \in TomlValues :
                TomlNode(TomlPairNode(k, val, NextStart))

TomlTable == \E path \in TomlPaths, body \in TomlBodies :
                 TomlNode(TomlTableNode("table", path, body, NextStart))

TomlTableArray == \E path \in TomlPaths, body \in TomlArrayBodies :
                      TomlNode(TomlTableNode("table_array_element", path, body,
                                             NextStart))

TomlOther == \E kind_ \in TomlOtherKinds :
                 TomlNode([kind |-> kind_, start |-> NextStart,
                           end |-> NextStart + 1, is_extra |-> kind_ = "comment",
                           children |-> << >>])

\* the end of the source: Toml::parse returns
TomlReturn ==
    LET root_node == TomlDocument(t_nodes, TomlHasError(t_nodes))
    IN /\ j_res = None /\ t_res = None
       /\ t_res' =
            Some([recorded |->
                    (IF root_node.has_error
                     THEN << ParseError("Failed to parse TOML structure",
                                        toml_make_span(root_node, TomlFile)) >>
                     ELSE << >>) \o t_errors,
                  result |-> Toml_parse(root_node, TomlFile)])
       /\ UNCHANGED << v_vars, j_vars, t_nodes, t_root, t_errors, cli_vars, s_vars, c_vars, lsp_vars >>

NextFormat ==
    \/ \E p \in JsonSources : JsonParse(Document(p))
    \/ JsonParse(EmptyDocument)
    \/ TomlPair
    \/ TomlTable
    \/ TomlTableArray
    \/ TomlOther
    \/ TomlReturn

SpecFormat == Init /\ [][NextFormat]_vars

----------------------------------------------------------------------------
(* The validator's contract.                                               *)

\* what a run was given and what it returned
TheValidator == v_schema[1]
TheData == v_data[1]
TheResult == v_res[1]
Returned == v_res # None /\ TheResult.tag = "Ok"

ValidatorOf(schema) == compile(SchemaSource(schema)).validator
DataOf(doc) == Json_parse(Document(doc), JsonFile).value
Count(errors, e) == Cardinality({ i \in 1..Len(errors) : errors[i] = e })

\* C2: an OrValidator over n >= 1 cases returns the result of a case with
\* the fewest diagnostics, and among the cases with the fewest, of the one
\* declared first.
C2_OrFewestEarliest ==
    (v_res # None /\ TheValidator.kind = "Or" /\ Len(TheValidator.cases) >= 1) =>
        LET cases == TheValidator.cases
            branch(i) == validate(cases[i], TheData)
            n(i) == Len(branch(i).errors)
        IN \/ \E i \in 1..Len(cases) : branch(i).tag = "Panic"
           \/ \E i \in 1..Len(cases) :
                /\ TheResult = branch(i)
                /\ \A j \in 1..Len(cases) : n(i) <= n(j)
                /\ \A j \in 1..(i - 1) : n(j) > n(i)

\* a tie between two cases that return different results
C2_Witness ==
    /\ Returned
    /\ TheValidator.kind = "Or"
    /\ \E i, j \in 1..Len(TheValidator.cases) :
          LET a == validate(TheValidator.cases[i], TheData)
              b == validate(TheValidator.cases[j], TheData)
          IN /\ i < j
             /\ a.tag = "Ok" /\ b.tag = "Ok"
             /\ a # b
             /\ Len(a.errors) = Len(b.errors)
             /\ Len(a.errors) = Len(TheResult.errors)

\* C3 (as claimed): `{"n":"oops"}` against `string | { n: integer }` yields
\* exactly one diagnostic, the object case's expected-integer diagnostic at
\* the value of n; `{"n":5}` and `"hello"` yield none.
C3_ObjectBranchWins ==
    (v_res # None /\ TheValidator = ValidatorOf(SchemaE)) =>
        /\ TheData = DataOf(DocOops) =>
              TheResult.errors =
                << ValidationError(primary(TheData.value.pairs[1][2].annotation),
                                   << "Expected Integer, found", "String" >>) >>
        /\ TheData \in { DataOf(DocFive), DataOf(DocHello) } =>
              TheResult.errors = << >>

\* C3 (amended): `{"n":"oops"}` yields exactly one diagnostic, the string
\* case's expected-string diagnostic at the object: both cases report one
\* diagnostic and the string case is declared first; `{"n":5}` and
\* `"hello"` yield none.
C3_StringBranchWinsTie ==
    (v_res # None /\ TheValidator = ValidatorOf(SchemaE)) =>
        /\ TheData = DataOf(DocOops) =>
              TheResult.errors =
                << ValidationError(primary(TheData.annotation),
                                   << "Expected String, found", "Object" >>) >>
        /\ TheData \in { DataOf(DocFive), DataOf(DocHello) } =>
              TheResult.errors = << >>

C3_Witness ==
    /\ Returned
    /\ TheValidator = ValidatorOf(SchemaE)
    /\ TheData = DataOf(DocOops)
    /\ Len(TheResult.errors) = 1

\* an ObjectValidator applied to an object
ObjectRun ==
    /\ v_res # None
    /\ TheValidator.kind = "Object"
    /\ TheData.value.kind = "Object"

InputKeys == { TheData.value.pairs[i][1].value : i \in 1..Len(TheData.value.pairs) }
Fields == NamedRecords(TheValidator.records)
FieldNames == { Fields[i].key : i \in 1..Len(Fields) }
IsOpen == \E i \in 1..Len(TheValidator.records) :
              TheValidator.records[i].kind = "AnyKey"

\* C4: for every field that is not optional and whose name is not among the
\* input keys there is exactly one missing-key diagnostic at the object's
\* primary span; for an optional field, or one whose key is present, none.
C4_MissingKeys ==
    ObjectRun =>
        \A k \in FieldNames :
            LET e == ValidationError(primary(TheData.annotation),
                                     << "Missing key", k >>)
                mandatory == { i \in 1..Len(Fields) :
                                 Fields[i].key = k /\ ~Fields[i].optional }
            IN Count(TheResult.errors, e) =
                 IF k \in InputKeys THEN 0 ELSE Cardinality(mandatory)

\* C5: an input key that matches no field gets, under a closed schema, one
\* unexpected-key diagnostic at its primary span and is left out of the
\* result; under an open schema (`..`) it gets no diagnostic and is kept
\* with its value as AnyValidator returns it.  `{ name: string,
\* age?: integer, .. }` on the document with name, age and extra gives no
\* diagnostic.
C5_UnexpectedKeys ==
    /\ ObjectRun =>
         \A i \in 1..Len(TheData.value.pairs) :
            LET key == TheData.value.pairs[i][1]
                value == TheData.value.pairs[i][2]
                e == ValidationError(primary(key.annotation),
                                     << "Unexpected key", key.value >>)
                kept == { j \in 1..Len(TheResult.result.value.pairs) :
                            TheResult.result.value.pairs[j][1].annotation.span
                              = key.annotation }
            IN key.value \notin FieldNames =>
                 IF IsOpen
                 THEN /\ Count(TheResult.errors, e) = 0
                      /\ \E j \in kept :
                            TheResult.result.value.pairs[j][2]
                              = validate(AnyValidator, value).result
                 ELSE /\ Count(TheResult.errors, e) = 1
                      /\ kept = {}
    /\ (v_res # None /\ TheValidator = ValidatorOf(SchemaA)
        /\ TheData = DataOf(DocA)) => TheResult.errors = << >>

\* C6: when two pairs of the input object have the same key, some
\* duplicate-key diagnostic names the key and lies at the primary span of
\* the later pair's key, whether or not the key is a field of the schema.
C6_DuplicateKeys ==
    ObjectRun =>
        \A i, j \in 1..Len(TheData.value.pairs) :
            LET first == TheData.value.pairs[i][1]
                later == TheData.value.pairs[j][1]
            IN (i < j /\ first.value = later.value) =>
                  \E n \in 1..Len(TheResult.errors) :
                      TheResult.errors[n] =
                        ValidationError(primary(later.annotation),
                                        << "Duplicate key", later.value >>)

\* a repeated key that no field matches, and one that a field matches
C6_Witness ==
    /\ ObjectRun
    /\ \E i, j \in 1..Len(TheData.value.pairs) :
          /\ i < j
          /\ TheData.value.pairs[i][1].value = TheData.value.pairs[j][1].value
          /\ TheData.value.pairs[i][1].value \in FieldNames
          /\ Len(TheResult.errors) >= 1

\* the result node r is the image of the input node d with every array
\* element and every object pair at the position it has in the input
RECURSIVE SameOrder(_, _)
SameOrder(r, d) ==
    /\ r.annotation.span = d.annotation
    /\ r.value.kind = d.value.kind
    /\ d.value.kind = "Array" =>
          /\ Len(r.value.items) = Len(d.value.items)
          /\ \A i \in 1..Len(d.value.items) :
                SameOrder(r.value.items[i], d.value.items[i])
    /\ d.value.kind = "Object" =>
          /\ Len(r.value.pairs) = Len(d.value.pairs)
          /\ \A i \in 1..Len(d.value.pairs) :
                /\ r.value.pairs[i][1].value = d.value.pairs[i][1].value
                /\ r.value.pairs[i][1].annotation.span
                     = d.value.pairs[i][1].annotation
                /\ SameOrder(r.value.pairs[i][2], d.value.pairs[i][2])

\* the same, except that the pairs of a result object are the images of
\* some of the input pairs, in the order the input has them
RECURSIVE SameRelativeOrder(_, _)
SameRelativeOrder(r, d) ==
    /\ r.annotation.span = d.annotation
    /\ r.value.kind = d.value.kind
    /\ d.value.kind = "Array" =>
          /\ Len(r.value.items) = Len(d.value.items)
          /\ \A i \in 1..Len(d.value.items) :
                SameRelativeOrder(r.value.items[i], d.value.items[i])
    /\ d.value.kind = "Object" =>
          \E f \in [1..Len(r.value.pairs) -> 1..Len(d.value.pairs)] :
              /\ \A i, j \in 1..Len(r.value.pairs) : i < j => f[i] < f[j]
              /\ \A i \in 1..Len(r.value.pairs) :
                    /\ r.value.pairs[i][1].value = d.value.pairs[f[i]][1].value
                    /\ r.value.pairs[i][1].annotation.span
                         = d.value.pairs[f[i]][1].annotation
                    /\ SameRelativeOrder(r.value.pairs[i][2],
                                         d.value.pairs[f[i]][2])

C8_ValidateTotal == v_res # None => TheResult.tag = "Ok"

----------------------------------------------------------------------------
(* The format front ends' contract.                                        *)

\* C9: a parse call that returns gives Ok only when no diagnostic was
\* recorded during the parse, and otherwise Err with the recorded
\* diagnostics, of which there is at least one: never a value together
\* with diagnostics, never a failure with an empty list.
DiagnosticsXorValue(call) ==
    /\ call.result.tag = "Ok" => call.recorded = << >>
    /\ call.result.tag = "Err" =>
          /\ call.result.errors = call.recorded
          /\ call.result.errors # << >>
    /\ (call.recorded # << >> /\ call.result.tag # "Panic") =>
          call.result.tag = "Err"

FragmentSpan(node, parts, i) ==
    LET before == SumSeq([j \in 1..(i - 1) |-> Len(parts[j]) + 1])
        start == node.children[2].start + before
    IN Span(TomlFile, start, start + Len(parts[i]))

\* along the path from part i on, every key the tree `before` has already
\* keeps its spans in `after` and gets the span of its fragment at the end
RECURSIVE Accumulated(_, _, _, _, _)
Accumulated(before, after, parts, i, node) ==
    (i <= Len(parts) /\ before.kind = "Object"
     /\ \E n \in 1..Len(before.pairs) :
           before.pairs[n][1].value = chars_to_string(parts[i])) =>
        LET n == CHOOSE n \in 1..Len(before.pairs) :
                    /\ before.pairs[n][1].value = chars_to_string(parts[i])
                    /\ \A m \in 1..(n - 1) :
                          before.pairs[m][1].value # chars_to_string(parts[i])
            old == before.pairs[n][1].annotation
            new == after.pairs[n][1].annotation
        IN /\ after.pairs[n][1].value = before.pairs[n][1].value
           /\ new = old \o << FragmentSpan(node, parts, i) >>
           /\ primary(new) = primary(old)
           /\ Accumulated(before.pairs[n][2].value, after.pairs[n][2].value,
                          parts, i + 1, node)

\* `[key]`, `x = 1`, `[key.a]`, `y = 1`
SpanScenario ==
    LET first == TomlTableNode("table", << "key" >>, << << "x", "int" >> >>, 0)
    IN << first,
          TomlTableNode("table", << "key", "a" >>, << << "y", "int" >> >>,
                        first.end + 1) >>

\* C10: when a table header walks through a key the tree already has, the
\* span of the key's own fragment of the header is appended to the key's
\* spans, the earlier spans stay as they are, and the primary span stays
\* the one of the header that created the key.  After `[key]`, `x = 1`,
\* `[key.a]`, `y = 1` the key `key` has two spans, over `key` in each
\* header.
C10_SpanAccumulation ==
    /\ [][\A node \in { t_nodes'[n] : n \in { Len(t_nodes') } \ { 0 } } :
            (Len(t_nodes') = Len(t_nodes) + 1 /\ node.kind = "table") =>
                Accumulated(t_root, t_root', Split(node.children[2].text), 1,
                            node)]_vars
    /\ [](t_nodes = SpanScenario =>
            t_root.pairs[1][1] =
              [value |-> "key",
               annotation |->
                 << Span(TomlFile, 1, 4),
                    Span(TomlFile, SpanScenario[2].start + 1,
                         SpanScenario[2].start + 4) >>])

C10_Witness ==
    /\ t_nodes = SpanScenario
    /\ Len(t_root.pairs[1][1].annotation) = 2
    /\ t_res = None

----------------------------------------------------------------------------
(* deval-cli: the `check` command.                                         *)

SUCCESS == 0
FAILURE == 1

\* what a run of the command leaves behind: how it ended, its exit code,
\* the error reports it printed (the stage and the number of diagnostics),
\* and whether it printed that the input matches the schema
CliOut(status, code, reports, matched) ==
    [status |-> status, code |-> code, reports |-> reports, matched |-> matched]
CliPanic(reports) == CliOut("panic", 101, reports, FALSE)

\* report_validation_errors, report_errors, display_errors: one report per
\* diagnostic
Report(stage, count) == [stage |-> stage, count |-> count]

\* format.parse(&source, file_name) for the format the extension selects
FormatParse(args) ==
    IF args.extension = "json" THEN Json_parse(args.source, "data.json")
    ELSE Toml_parse(args.source, "data.toml")

\* main, Args::Check, once the validator has returned r
check_validated(r) ==
    IF r.tag = "Panic" THEN CliPanic(<< >>)
    ELSE CliOut("exit", SUCCESS, << Report("validate", Len(r.errors)) >>, TRUE)

\* main, Args::Check, the Ok arm of the parse: `compiled` is what
\* deval_schema::compile returned for the schema source
check_compiled(data, compiled) ==
    CASE compiled.tag = "Panic" -> CliPanic(<< >>)
      [] compiled.tag = "Err" ->
            CliOut("exit", FAILURE, << Report("compile", 1) >>, FALSE)
      [] compiled.tag = "Validator" ->
            check_validated(validate(compiled.validator, data))

\* main, Args::Check, the match on what format.parse returned
check_parsed(args, parsed) ==
    CASE parsed.tag = "Panic" -> CliPanic(<< >>)
      [] parsed.tag = "Err" ->
            CliOut("exit", FAILURE, << Report("parse", Len(parsed.errors)) >>,
                   FALSE)
      [] parsed.tag = "Ok" ->
            check_compiled(parsed.value, compile(args.schema_source))

\* main, Args::Check { schema, file }
check(args) ==
    IF args.schema = "unknown"
    THEN \* no --schema and the configuration has no rule for the file
         CliOut("exit", FAILURE, << Report("schema", 1) >>, FALSE)
    ELSE IF args.extension \notin { "json", "toml" }
    THEN CliPanic(<< >>)
    ELSE check_parsed(args, FormatParse(args))

\* the command lines and files
CliSchemas ==
    { SchemaSource(SchemaE), SchemaSource(SchemaA), SchemaSource(SchemaB),
      SchemaSource(Ident("integer")), SchemaSource(Ident("unknown")),
      SchemaSource(Array(Ident("string"), None)),
      SchemaSource(Number(50)), SchemaSyntaxError }
CliJsonFiles ==
    { Document(p) :
        p \in { DocOops, DocFive, DocHello, DocA, DocB, DocC, PNum(50), PBadNum,
                PArr(<< PStr("x"), PNum(50) >>), PObj(<< PError >>) } }
    \cup { EmptyDocument }
CliTomlFiles ==
    { TomlDocument(nodes, TomlHasError(nodes)) :
        nodes \in { << >>, SpanScenario,
                    << TomlPairNode("x", "int", 0) >>,
                    << TomlPairNode("x", "err", 0) >>,
                    << TomlPairNode("x", "int", 0),
                       TomlPairNode("x", "int", 6) >> } }
CliArgs ==
    { [schema |-> sc, extension |-> "json", source |-> f, schema_source |-> ss] :
        sc \in { "given", "configured", "unknown" }, f \in CliJsonFiles,
        ss \in CliSchemas }
    \cup
    { [schema |-> sc, extension |-> "toml", source |-> f, schema_source |-> ss] :
        sc \in { "given", "configured", "unknown" }, f \in CliTomlFiles,
        ss \in CliSchemas }
    \cup
    { [schema |-> "given", extension |-> e, source |-> EmptyDocument,
       schema_source |-> SchemaSource(SchemaB)] : e \in { "yaml", "" } }

Check(args) ==
    /\ cli_out = None
    /\ cli_in' = Some(args)
    /\ cli_out' = Some(check(args))
    /\ UNCHANGED << v_vars, j_vars, t_vars, lsp_vars, s_vars, c_vars >>

NextCli == \E args \in CliArgs : Check(args)

SpecCli == Init /\ [][NextCli]_vars

\* the diagnostics a run emitted
Emitted(out) == SumSeq([i \in 1..Len(out.reports) |-> out.reports[i].count])

\* C1: `check` exits with a nonzero code if and only if at least one
\* diagnostic was emitted at some stage: a run whose validator reports
\* diagnostics exits nonzero, and the exit code is 0 only when no
\* diagnostic at all was produced.
C1_ExitCodeIffDiagnostics ==
    (cli_out # None /\ cli_out[1].status = "exit") =>
        (cli_out[1].code # SUCCESS <=> Emitted(cli_out[1]) > 0)

----------------------------------------------------------------------------
(* Parsing and then validating: what the check command and a document of   *)
(* the language server do with a source.  The validator is applied to the  *)
(* tree the front end returned.                                            *)

TreeValidators ==
    { AnyValidator,
      ArrayValidator(NumberValidator),
      ObjectValidator(<< SimpleKey("key", "The key", AnyValidator, FALSE),
                         SimpleKey("n", "", NumberValidator, FALSE) >>),
      ObjectValidator(<< SimpleKey("key", "",
                            ObjectValidator(<< SimpleKey("a", "", AnyValidator,
                                                         FALSE) >>),
                            FALSE) >>) }

\* the result of the front end that ran
Parsed == IF j_res # None THEN j_res[1].result ELSE t_res[1].result

ValidateParsed(validator) ==
    /\ v_res = None
    /\ j_res # None \/ t_res # None
    /\ Parsed.tag = "Ok"
    /\ v_schema' = Some(validator)
    /\ v_data' = Some(Parsed.value)
    /\ v_res' = Some(validate(validator, Parsed.value))
    /\ UNCHANGED << j_vars, t_vars, cli_vars, s_vars, c_vars, lsp_vars >>

NextTree ==
    \/ NextFormat
    \/ \E validator \in TreeValidators : ValidateParsed(validator)

SpecTree == Init /\ [][NextTree]_vars

\* the SpanSets of a tree: of each key, each value and each leaf.  In a
\* spanned tree the annotation is the SpanSet, in a fully annotated tree
\* it is the annotation's span.
SpanSetOf(annotation, full) == IF full THEN annotation.span ELSE annotation

RECURSIVE SpanSetsOfData(_, _)
SpanSetsOfData(value, full) ==
    CASE value.kind = "Null" -> {}
      [] value.kind \in { "Bool", "Number", "String" } ->
            { SpanSetOf(value.annotation, full) }
      [] value.kind = "Array" ->
            UNION { { SpanSetOf(value.items[i].annotation, full) }
                    \cup SpanSetsOfData(value.items[i].value, full) :
                    i \in 1..Len(value.items) }
      [] value.kind = "Object" ->
            UNION { { SpanSetOf(value.pairs[i][1].annotation, full),
                      SpanSetOf(value.pairs[i][2].annotation, full) }
                    \cup SpanSetsOfData(value.pairs[i][2].value, full) :
                    i \in 1..Len(value.pairs) }

SpanSetsOf(node, full) ==
    { SpanSetOf(node.annotation, full) } \cup SpanSetsOfData(node.value, full)

IsPrefix(a, b) == Len(a) <= Len(b) /\ SubSeq(b, 1, Len(a)) = a

\* every node of `before` is in `after` at the same place, and its spans
\* are the first of the spans it has there
RECURSIVE OnlyAppended(_, _)
OnlyAppended(before, after) ==
    /\ after.kind = before.kind
    /\ CASE before.kind = "Null" -> TRUE
         [] before.kind \in { "Bool", "Number", "String" } ->
               IsPrefix(before.annotation, after.annotation)
         [] before.kind = "Array" ->
               /\ Len(before.items) <= Len(after.items)
               /\ \A i \in 1..Len(before.items) :
                     /\ IsPrefix(before.items[i].annotation,
                                 after.items[i].annotation)
                     /\ OnlyAppended(before.items[i].value, after.items[i].value)
         [] before.kind = "Object" ->
               /\ Len(before.pairs) <= Len(after.pairs)
               /\ \A i \in 1..Len(before.pairs) :
                     /\ after.pairs[i][1].value = before.pairs[i][1].value
                     /\ IsPrefix(before.pairs[i][1].annotation,
                                 after.pairs[i][1].annotation)
                     /\ IsPrefix(before.pairs[i][2].annotation,
                                 after.pairs[i][2].annotation)
                     /\ OnlyAppended(before.pairs[i][2].value,
                                     after.pairs[i][2].value)

\* C11: every SpanSet of a tree that Json.parse, Toml.parse or a validator
\* returns, on a key or on a value, has at least one span, and so has every
\* SpanSet of the tree the TOML front end is building; a step of the TOML
\* table builder keeps the spans every node already has, in their order,
\* and only adds spans after them.
C11_SpanSetsNonEmpty ==
    /\ []( /\ (j_res # None /\ j_res[1].result.tag = "Ok") =>
                \A ss \in SpanSetsOf(j_res[1].result.value, FALSE) : Len(ss) >= 1
           /\ \A ss \in SpanSetsOfData(t_root, FALSE) : Len(ss) >= 1
           /\ (t_res # None /\ t_res[1].result.tag = "Ok") =>
                \A ss \in SpanSetsOf(t_res[1].result.value, FALSE) : Len(ss) >= 1
           /\ Returned =>
                \A ss \in SpanSetsOf(TheResult.result, TRUE) : Len(ss) >= 1 )
    /\ [][OnlyAppended(t_root, t_root')]_vars

\* a TOML source with a revisited key was parsed and then validated
C11_Witness ==
    /\ t_res # None /\ t_res[1].result.tag = "Ok"
    /\ Returned
    /\ TheValidator.kind = "Object"
    /\ \E ss \in SpanSetsOf(TheResult.result, TRUE) : Len(ss) >= 2

----------------------------------------------------------------------------
(* deval-data-model: the walk over a fully annotated tree.                 *)

RECURSIVE Flatten(_)
Flatten(ss) == IF ss = << >> THEN << >> ELSE ss[1] \o Flatten(Tail(ss))

\* AnnotatedData::walk: the annotations, in the order the callback gets them
RECURSIVE walk(_)
walk(value) ==
    CASE value.kind = "Null" -> << >>
      [] value.kind \in { "Bool", "Number", "String" } -> << value.annotation >>
      [] value.kind = "Array" ->
            Flatten([i \in 1..Len(value.items) |->
                       << value.items[i].annotation >>
                       \o walk(value.items[i].value)])
      [] value.kind = "Object" ->
            Flatten([i \in 1..Len(value.pairs) |->
                       << value.pairs[i][1].annotation,
                          value.pairs[i][2].annotation >>
                       \o walk(value.pairs[i][2].value)])

----------------------------------------------------------------------------
(* deval-lsp: the token store of a document.                               *)

SemanticToken(start, end, token_type) ==
    [start |-> start, end |-> end, token_type |-> token_type]

\* SemanticToken::contains
contains(token, pos) == pos >= token.start /\ pos < token.end

\* SemanticToken::is_in_range
is_in_range(token, start, end) == token.start >= start /\ token.end <= end

\* Ord for SemanticToken: by start, then the longer token first
cmp(a, b) ==
    CASE a.start < b.start -> "Less"
      [] a.start > b.start -> "Greater"
      [] b.end < a.end -> "Less"
      [] b.end > a.end -> "Greater"
      [] OTHER -> "Equal"

\* Vec::sort: a stable sort by cmp
RECURSIVE sort(_)
sort(tokens) ==
    IF tokens = << >> THEN << >>
    ELSE LET rest == sort(SubSeq(tokens, 1, Len(tokens) - 1))
             last == tokens[Len(tokens)]
             k == Cardinality({ i \in 1..Len(rest) :
                                  cmp(rest[i], last) # "Greater" })
         IN SubSeq(rest, 1, k) \o << last >> \o SubSeq(rest, k + 1, Len(rest))

\* TokenStore::collect_tokens: a token per span of every annotation that
\* has a semantic type
collect_tokens(annotated) ==
    LET annotations == walk(annotated.value)
    IN Flatten([i \in 1..Len(annotations) |->
                  IF annotations[i].semantic_type = None THEN << >>
                  ELSE [j \in 1..Len(annotations[i].span) |->
                          SemanticToken(annotations[i].span[j].start,
                                        annotations[i].span[j].end,
                                        annotations[i].semantic_type[1])]])

\* a build that would leave the tokens in the order they were collected
build_unsorted(annotated) == collect_tokens(annotated)

\* TokenStore::build_from_annotated
build_from_annotated(annotated) == sort(collect_tokens(annotated))

\* TokenStore::tokens_in_range
tokens_in_range(tokens, start, end) ==
    SelectSeq(tokens, LAMBDA token : is_in_range(token, start, end))

\* the closure handed to binary_search_by:
\* token.start.cmp(&pos).then(Ordering::Greater)
search_order(token, pos) == IF token.start < pos THEN "Less" ELSE "Greater"

\* slice::binary_search_by between the 0-based indices lo and hi: the
\* closure is never Equal, so the search ends in Err(idx)
RECURSIVE binary_search_by(_, _, _, _)
binary_search_by(tokens, pos, lo, hi) ==
    IF lo >= hi THEN lo
    ELSE LET mid == lo + ((hi - lo) \div 2)
         IN IF search_order(tokens[mid + 1], pos) = "Less"
            THEN binary_search_by(tokens, pos, mid + 1, hi)
            ELSE binary_search_by(tokens, pos, lo, mid)

\* TokenStore::smallest_token_containing: the last token before idx that
\* contains pos
smallest_token_containing(tokens, pos) ==
    LET idx == binary_search_by(tokens, pos, 0, Len(tokens))
        hits == { i \in 1..idx : contains(tokens[i], pos) }
    IN IF hits = {} THEN None
       ELSE Some(tokens[CHOOSE i \in hits : \A j \in hits : j <= i])

----------------------------------------------------------------------------
(* deval-lsp: a source text and its line index.  A text is the tree        *)
(* tree-sitter builds from it together with the offsets of its line feeds. *)

Text(root, newlines) == [root |-> root, newlines |-> newlines]

\* a JSON document is written on one line
JsonText(root_node) == Text(root_node, {})

\* a TOML document has a line per header and per pair
TomlText(nodes) ==
    Text(TomlDocument(nodes, TomlHasError(nodes)),
         { nodes[i].start - 1 : i \in 2..Len(nodes) }
         \cup UNION { { nodes[i].children[c].start - 1 :
                          c \in 4..Len(nodes[i].children) } :
                      i \in { n \in 1..Len(nodes) :
                                nodes[n].kind \in { "table",
                                                    "table_array_element" } } })

\* the elements of a set of numbers in increasing order
RECURSIVE Ascending(_)
Ascending(S) ==
    IF S = {} THEN << >>
    ELSE LET least == CHOOSE x \in S : \A y \in S : x <= y
         IN << least >> \o Ascending(S \ { least })

\* LineIndex::new: the offsets at which the lines after the first start
LineIndex_new(text) == Ascending({ n + 1 : n \in text.newlines })

\* LineIndex::line_col
line_col(line_index, offset) ==
    LET line == Cardinality({ i \in 1..Len(line_index) : line_index[i] <= offset })
    IN [line |-> line,
        col |-> offset - (IF line = 0 THEN 0 ELSE line_index[line])]

\* LineIndex::offset: none for a line the text does not have
offset(line_index, line, col) ==
    IF line = 0 THEN Some(col)
    ELSE IF line <= Len(line_index) THEN Some(line_index[line] + col)
    ELSE None

----------------------------------------------------------------------------
(* deval-lsp: a document.                                                  *)

\* struct Document
LspDocument(annotated, line_index, token_store, format, schema) ==
    [annotated |-> annotated, line_index |-> line_index,
     token_store |-> token_store, format |-> format, schema |-> schema]

\* what is left of a call that panicked
DocumentPanic == [tag |-> "Panic"]

\* self.format.parse(text, "")
format_parse(format, text) ==
    IF format = "Json" THEN Json_parse(text.root, "")
    ELSE Toml_parse(text.root, "")

\* the next mutant keeps no tree when the validation has diagnostics
update_validated_strict(doc, r) ==
    IF r.tag = "Panic" THEN DocumentPanic
    ELSE IF r.errors # << >> THEN [doc EXCEPT !.annotated = None]
    ELSE [doc EXCEPT !.annotated = Some(r.result),
                     !.token_store = build_from_annotated(r.result)]

\* Document::update_text, once the validator has returned r
update_validated(doc, r) ==
    IF r.tag = "Panic" THEN DocumentPanic
    ELSE [doc EXCEPT !.annotated = Some(r.result),
                     !.token_store = build_from_annotated(r.result)]

\* Document::update_text, the match on what format.parse returned
update_parsed(doc, parsed) ==
    CASE parsed.tag = "Panic" -> DocumentPanic
      [] parsed.tag = "Err" -> [doc EXCEPT !.annotated = None]
      [] parsed.tag = "Ok" ->
            update_validated(doc, validate(doc.schema, parsed.value))

\* Document::update_text
update_text(doc, text) ==
    update_parsed([doc EXCEPT !.line_index = LineIndex_new(text)],
                  format_parse(doc.format, text))

\* Document::new
Document_new(text, format, schema) ==
    update_text(LspDocument(None, << >>, << >>, format, schema), text)

----------------------------------------------------------------------------
(* deval-lsp: the request handlers, on a document they have acquired.      *)

\* the position of a semantic type in the legend
token_type_index(semantic_type) ==
    CASE semantic_type = "Number" -> 19
      [] semantic_type = "String" -> 18
      [] semantic_type = "Variable" -> 8

\* a u32 is written hi * 2^32 + lo
U32(hi, lo) == [hi |-> hi, lo |-> lo]

\* a - b on u32: a build with overflow checks panics when b > a, a build
\* without them wraps around
sub_u32(a, b, overflow_checks) ==
    IF a >= b THEN Some(U32(0, a - b))
    ELSE IF overflow_checks THEN None
    ELSE Some(U32(1, a - b))

\* struct SemanticToken of lsp_types
LspSemanticToken(delta_line, delta_start, length, token_type) ==
    [delta_line |-> delta_line, delta_start |-> delta_start,
     length |-> length, token_type |-> token_type,
     token_modifiers_bitset |-> 0]

\* one token is pushed: `state` holds result, prev_line and prev_col
push_token(state, l, length, token_type, overflow_checks) ==
    LET prev_col == IF l.line # state.prev_line THEN 0 ELSE state.prev_col
        delta_line == sub_u32(l.line, state.prev_line, overflow_checks)
        delta_start == sub_u32(l.col, prev_col, overflow_checks)
    IN IF state.panic \/ delta_line = None \/ delta_start = None
       THEN [state EXCEPT !.panic = TRUE]
       ELSE [panic |-> FALSE,
             result |-> Append(state.result,
                               LspSemanticToken(delta_line[1], delta_start[1],
                                                length, token_type)),
             prev_line |-> l.line, prev_col |-> l.col]

\* semantic_tokens_full, from `let mut result` on: the walk over the tree
semantic_tokens_of(doc, data, overflow_checks) ==
    LET annotations == walk(data.value)
        Loop[i \in 1..(Len(annotations) + 1)] ==
            IF i = 1
            THEN [panic |-> FALSE, result |-> << >>, prev_line |-> 0,
                  prev_col |-> 0]
            ELSE LET annotation == annotations[i - 1]
                     span == primary(annotation.span)
                 IN IF Loop[i - 1].panic \/ annotation.semantic_type = None
                    THEN Loop[i - 1]
                    ELSE push_token(Loop[i - 1],
                                    line_col(doc.line_index, span.start),
                                    span.end - span.start,
                                    token_type_index(annotation.semantic_type[1]),
                                    overflow_checks)
        end == Loop[Len(annotations) + 1]
    IN IF end.panic THEN Panic ELSE Ok(Some(end.result))

\* semantic_tokens_full, once the handler looks the document up
semantic_tokens_full(entry, overflow_checks) ==
    IF entry = None THEN Ok(None)
    ELSE IF entry[1].annotated = None THEN Ok(None)
    ELSE semantic_tokens_of(entry[1], entry[1].annotated[1], overflow_checks)

\* semantic_tokens_range, from `let tokens` on
range_tokens_of(doc, range, tokens, overflow_checks) ==
    LET Loop[i \in 1..(Len(tokens) + 1)] ==
            IF i = 1
            THEN [panic |-> FALSE, result |-> << >>,
                  prev_line |-> range.start.line, prev_col |-> 0]
            ELSE LET token == tokens[i - 1]
                     l == line_col(doc.line_index, token.start)
                     prev == Loop[i - 1]
                 IN IF prev.panic THEN prev
                    ELSE IF l.line >= range.start.line /\ l.line <= range.end.line
                    THEN push_token(prev, l, token.end - token.start,
                                    token_type_index(token.token_type),
                                    overflow_checks)
                    ELSE IF l.line # prev.prev_line
                    THEN [prev EXCEPT !.prev_col = 0]
                    ELSE prev
        end == Loop[Len(tokens) + 1]
    IN IF end.panic THEN Panic ELSE Ok(Some(end.result))

\* semantic_tokens_range, once the handler looks the document up
semantic_tokens_range(entry, range, overflow_checks) ==
    IF entry = None THEN Ok(None)
    ELSE LET doc == entry[1]
             start_offset == offset(doc.line_index, range.start.line,
                                    range.start.character)
             end_offset == offset(doc.line_index, range.end.line,
                                  range.end.character)
         IN \* .unwrap()
            IF start_offset = None \/ end_offset = None THEN Panic
            ELSE range_tokens_of(doc, range,
                                 tokens_in_range(doc.token_store, start_offset[1],
                                                 end_offset[1]),
                                 overflow_checks)

\* struct Hover; the content is a text, written as its lines
Hover(contents) == [contents |-> contents]

\* hover, the content for a token
hover_content(token_type) ==
    CASE token_type = "Number" -> << "Number literal" >>
      [] token_type = "String" -> << "String literal" >>
      [] token_type = "Variable" -> << "Variable" >>

\* hover
hover(entry, at_position) ==
    IF entry = None THEN Ok(None)
    ELSE LET doc == entry[1]
             at == offset(doc.line_index, at_position.line, at_position.character)
         IN \* .unwrap()
            IF at = None THEN Panic
            ELSE LET token == smallest_token_containing(doc.token_store, at[1])
                 IN IF token # None
                    THEN Ok(Some(Hover(hover_content(token[1].token_type))))
                    ELSE Ok(None)

----------------------------------------------------------------------------
(* deval-lsp: the server.  The messages of the client are taken in the     *)
(* order they arrive, and the handler of a message runs at once up to its  *)
(* first await.  A handler suspended at an await is resumed at any later   *)
(* time, so that the handlers after it may run in between.  A request is   *)
(* followed to its response; a panic of a handler ends the server.         *)

\* the Backends start_server builds: a format, a validator, and whether
\* the build checks integer overflow
Backends ==
    { [format |-> "Json", schema |-> ValidatorOf(SchemaN),
       overflow_checks |-> TRUE],
      [format |-> "Toml", schema |-> AnyValidator, overflow_checks |-> TRUE],
      [format |-> "Toml", schema |-> AnyValidator, overflow_checks |-> FALSE] }

\* tables without pairs, one header per line
RECURSIVE TomlTables(_, _)
TomlTables(paths, at) ==
    IF paths = << >> THEN << >>
    ELSE LET first == TomlTableNode("table", paths[1], << >>, at)
         IN << first >> \o TomlTables(Tail(paths), first.end + 1)

\* `{"n":5}`, `{"n":"oops"}`, a syntax error, an empty text
JsonTexts ==
    { JsonText(Document(DocFive)), JsonText(Document(DocOops)),
      JsonText(Document(PError)), JsonText(EmptyDocument) }

\* `[a]`, `[x]`, `[a.y]`; `key = 1`; `key = ?`
TomlTexts ==
    { TomlText(TomlTables(<< << "a" >>, << "x" >>, << "a", "y" >> >>, 0)),
      TomlText(<< TomlPairNode("key", "int", 0) >>),
      TomlText(<< TomlPairNode("key", "err", 0) >>) }

\* the texts a client of the running server sends
Texts ==
    IF lsp_backend = None THEN {}
    ELSE IF lsp_backend[1].format = "Json" THEN JsonTexts ELSE TomlTexts

Position(line, character) == [line |-> line, character |-> character]
Positions == { Position(line, character) : line \in 0..MaxLine,
                                           character \in 0..MaxCol }
Ranges ==
    { [start |-> Position(0, 0), end |-> Position(0, MaxCol)],
      [start |-> Position(0, 0), end |-> Position(MaxLine, 0)] }

\* the server runs and no response or panic has ended the run
Alive == lsp_backend # None /\ lsp_reply = None

\* a message is taken from the client
Received == Alive /\ lsp_count < MaxMessages /\ lsp_count' = lsp_count + 1

Suspended(kind_, uri, text, range) ==
    [kind |-> kind_, uri |-> uri, text |-> text, range |-> range]

Suspend(handler) ==
    /\ Len(lsp_pending) < MaxInFlight
    /\ lsp_pending' = Append(lsp_pending, handler)

\* the handler at place i of the suspended ones is done
Resumed(i) ==
    lsp_pending' = SubSeq(lsp_pending, 1, i - 1)
                   \o SubSeq(lsp_pending, i + 1, Len(lsp_pending))

Reply(method, uri, at, result) ==
    [method |-> method, uri |-> uri, at |-> at, result |-> result]

\* start_server
StartServer(backend) ==
    /\ lsp_backend = None
    /\ j_res = None /\ t_nodes = << >> /\ t_res = None
    /\ v_res = None /\ cli_out = None
    /\ lsp_backend' = Some(backend)
    /\ UNCHANGED << v_vars, j_vars, t_vars, cli_vars, s_vars, c_vars, documents, lsp_pending,
                    lsp_reply, lsp_client, lsp_count >>

\* a document is put into the map, unless building it panicked
insert_document(uri, doc) ==
    IF doc = DocumentPanic
    THEN /\ lsp_reply' = Some(Reply("did_open", uri, None, Panic))
         /\ UNCHANGED documents
    ELSE /\ documents' = [documents EXCEPT ![uri] = Some(doc)]
         /\ UNCHANGED lsp_reply

\* a document of the map is replaced, unless updating it panicked
update_document(uri, doc) ==
    IF doc = DocumentPanic
    THEN /\ lsp_reply' = Some(Reply("did_change", uri, None, Panic))
         /\ UNCHANGED documents
    ELSE /\ documents' = [documents EXCEPT ![uri] = Some(doc)]
         /\ UNCHANGED lsp_reply

\* did_open, up to the await of the log message
DidOpen(uri, text) ==
    /\ Received
    /\ Suspend(Suspended("did_open", uri, Some(text), None))
    /\ lsp_client' = [lsp_client EXCEPT ![uri] = ClientView("open", Some(text))]
    /\ UNCHANGED << v_vars, j_vars, t_vars, cli_vars, s_vars, c_vars, lsp_backend, documents,
                    lsp_reply >>

\* did_open, after the await: the document is built and inserted
DidOpenInsert(i) ==
    /\ Alive
    /\ lsp_pending[i].kind = "did_open"
    /\ Resumed(i)
    /\ insert_document(lsp_pending[i].uri,
                       Document_new(lsp_pending[i].text[1],
                                    lsp_backend[1].format,
                                    lsp_backend[1].schema))
    /\ UNCHANGED << v_vars, j_vars, t_vars, cli_vars, s_vars, c_vars, lsp_backend, lsp_client,
                    lsp_count >>

\* did_change: the entry is updated if there is one; else a message is
\* logged
DidChange(uri, text) ==
    /\ Received
    /\ IF documents[uri] # None
       THEN update_document(uri, update_text(documents[uri][1], text))
       ELSE UNCHANGED << documents, lsp_reply >>
    /\ lsp_client' = [lsp_client EXCEPT
                        ![uri] = IF @.state = "open"
                                 THEN ClientView("open", Some(text)) ELSE @]
    /\ UNCHANGED << v_vars, j_vars, t_vars, cli_vars, s_vars, c_vars, lsp_backend, lsp_pending >>

\* did_close, up to the await of the log message
DidClose(uri) ==
    /\ Received
    /\ Suspend(Suspended("did_close", uri, None, None))
    /\ lsp_client' = [lsp_client EXCEPT
                        ![uri] = IF @.state = "open"
                                 THEN ClientView("closed", None) ELSE @]
    /\ UNCHANGED << v_vars, j_vars, t_vars, cli_vars, s_vars, c_vars, lsp_backend, documents,
                    lsp_reply >>

\* the next mutant empties the map
DidCloseClear(i) ==
    /\ Alive
    /\ lsp_pending[i].kind = "did_close"
    /\ Resumed(i)
    /\ documents' = [uri \in URIs |-> None]
    /\ UNCHANGED << v_vars, j_vars, t_vars, cli_vars, s_vars, c_vars, lsp_backend, lsp_reply,
                    lsp_client, lsp_count >>

\* did_close, after the await: self.documents.remove(&uri)
DidCloseRemove(i) ==
    /\ Alive
    /\ lsp_pending[i].kind = "did_close"
    /\ Resumed(i)
    /\ documents' = [documents EXCEPT ![lsp_pending[i].uri] = None]
    /\ UNCHANGED << v_vars, j_vars, t_vars, cli_vars, s_vars, c_vars, lsp_backend, lsp_reply,
                    lsp_client, lsp_count >>

\* semantic_tokens_full, up to the await of the log message
SemanticTokensFull(uri) ==
    /\ Received
    /\ Suspend(Suspended("semantic_tokens_full", uri, None, None))
    /\ UNCHANGED << v_vars, j_vars, t_vars, cli_vars, s_vars, c_vars, lsp_backend, documents,
                    lsp_reply, lsp_client >>

\* semantic_tokens_full, after the await
SemanticTokensFullReply(i) ==
    /\ Alive
    /\ lsp_pending[i].kind = "semantic_tokens_full"
    /\ Resumed(i)
    /\ lsp_reply' =
         Some(Reply("semantic_tokens_full", lsp_pending[i].uri, None,
                    semantic_tokens_full(documents[lsp_pending[i].uri],
                                         lsp_backend[1].overflow_checks)))
    /\ UNCHANGED << v_vars, j_vars, t_vars, cli_vars, s_vars, c_vars, lsp_backend, documents,
                    lsp_client, lsp_count >>

\* semantic_tokens_range, up to the await of the log message
SemanticTokensRange(uri, range) ==
    /\ Received
    /\ Suspend(Suspended("semantic_tokens_range", uri, None, Some(range)))
    /\ UNCHANGED << v_vars, j_vars, t_vars, cli_vars, s_vars, c_vars, lsp_backend, documents,
                    lsp_reply, lsp_client >>

\* semantic_tokens_range, after the await
SemanticTokensRangeReply(i) ==
    /\ Alive
    /\ lsp_pending[i].kind = "semantic_tokens_range"
    /\ Resumed(i)
    /\ lsp_reply' =
         Some(Reply("semantic_tokens_range", lsp_pending[i].uri, None,
                    semantic_tokens_range(documents[lsp_pending[i].uri],
                                          lsp_pending[i].range[1],
                                          lsp_backend[1].overflow_checks)))
    /\ UNCHANGED << v_vars, j_vars, t_vars, cli_vars, s_vars, c_vars, lsp_backend, documents,
                    lsp_client, lsp_count >>

\* hover: the handler has no await
HoverRequest(uri, at_position) ==
    /\ Received
    /\ lsp_reply' = Some(Reply("hover", uri, Some(at_position),
                               hover(documents[uri], at_position)))
    /\ UNCHANGED << v_vars, j_vars, t_vars, cli_vars, s_vars, c_vars, lsp_backend, documents,
                    lsp_pending, lsp_client >>

NextLsp ==
    \/ \E backend \in Backends : StartServer(backend)
    \/ \E uri \in URIs : \E text \in Texts : DidOpen(uri, text)
    \/ \E i \in 1..Len(lsp_pending) : DidOpenInsert(i)
    \/ \E uri \in URIs : \E text \in Texts : DidChange(uri, text)
    \/ \E uri \in URIs : DidClose(uri)
    \/ \E i \in 1..Len(lsp_pending) : DidCloseRemove(i)
    \/ \E uri \in URIs : SemanticTokensFull(uri)
    \/ \E i \in 1..Len(lsp_pending) : SemanticTokensFullReply(i)
    \/ \E uri \in URIs : \E range \in Ranges : SemanticTokensRange(uri, range)
    \/ \E i \in 1..Len(lsp_pending) : SemanticTokensRangeReply(i)
    \/ \E uri \in URIs : \E at_position \in Positions :
          HoverRequest(uri, at_position)

SpecLsp == Init /\ [][NextLsp]_vars

----------------------------------------------------------------------------
(* The language server's contract.                                         *)

\* the places in a token store of the tokens that contain pos
Containing(tokens, pos) ==
    { i \in 1..Len(tokens) : tokens[i].start <= pos /\ pos < tokens[i].end }

Width(token) == token.end - token.start

\* the greatest end of a token of the store
StoreEnd(tokens) ==
    IF tokens = << >> THEN 0
    ELSE CHOOSE e \in { tokens[i].end : i \in 1..Len(tokens) } :
            \A i \in 1..Len(tokens) : tokens[i].end <= e

\* C12: for every token store build_from_annotated has built and every byte
\* position p, when some stored token has start <= p < end (p may be the
\* start of a token), smallest_token_containing(p) returns a token that
\* contains p and no stored token that contains p is narrower; when no
\* stored token contains p, it returns none.
C12_TokenStoreInnermost ==
    \A uri \in URIs :
        documents[uri] # None =>
            LET tokens == documents[uri][1].token_store
            IN \A p \in 0..StoreEnd(tokens) :
                  LET found == smallest_token_containing(tokens, p)
                  IN IF Containing(tokens, p) = {}
                     THEN found = None
                     ELSE /\ found # None
                          /\ contains(found[1], p)
                          /\ \A i \in Containing(tokens, p) :
                                Width(tokens[i]) >= Width(found[1])

\* the tree of a document is the one its format and its validator give for
\* the text, and there is none exactly when the text does not parse
AnnotatedFor(doc, text, parsed) ==
    /\ (doc.annotated = None) <=> (parsed.tag = "Err")
    /\ parsed.tag = "Ok" =>
          doc.annotated = Some(validate(doc.schema, parsed.value).result)

\* C13: after a didOpen or a didChange with the text T has updated the
\* document of a URI, the document's `annotated` is none if and only if
\* format.parse(T) failed; when T parses, `annotated` is the tree the
\* validator returned for it, also when the validation produced diagnostics.
C13_AnnotatedIffParsed ==
    [][ /\ \A uri \in URIs : \A text \in Texts :
              (DidChange(uri, text) /\ documents[uri] # None /\ lsp_reply' = None)
              => AnnotatedFor(documents'[uri][1], text,
                              format_parse(lsp_backend[1].format, text))
        /\ \A i \in 1..Len(lsp_pending) :
              (DidOpenInsert(i) /\ lsp_reply' = None)
              => AnnotatedFor(documents'[lsp_pending[i].uri][1],
                              lsp_pending[i].text[1],
                              format_parse(lsp_backend[1].format,
                                           lsp_pending[i].text[1])) ]_vars

\* one document holds a tree whose validation produced diagnostics, and a
\* didChange with a text that does not parse has left the other without one
C13_Witness ==
    /\ lsp_reply = None
    /\ documents["a.json"] # None /\ lsp_client["a.json"].state = "open"
    /\ documents["a.json"][1].annotated # None
    /\ LET parsed == format_parse(lsp_backend[1].format,
                                  lsp_client["a.json"].text[1])
       IN /\ parsed.tag = "Ok"
          /\ validate(lsp_backend[1].schema, parsed.value).errors # << >>
    /\ documents["c.txt"] # None
    /\ documents["c.txt"][1].annotated = None
    /\ documents["c.txt"][1].token_store # << >>

\* the requests that look a document up
Queries == { "semantic_tokens_full", "semantic_tokens_range", "hover" }

\* C14: the removal of didClose(u) takes u's entry out of the map and
\* leaves every other entry as it is; a didChange for a URI without an
\* entry creates none; and a semanticTokens/full, semanticTokens/range or
\* hover request for a URI that has no entry, closed or never opened, gets
\* an empty response, not an error.
C14_CloseFrameAndEmptyReplies ==
    /\ [][ /\ \A i \in 1..Len(lsp_pending) :
                 DidCloseRemove(i) =>
                     /\ documents'[lsp_pending[i].uri] = None
                     /\ \A other \in URIs \ { lsp_pending[i].uri } :
                           documents'[other] = documents[other]
           /\ \A uri \in URIs : \A text \in Texts :
                 (DidChange(uri, text) /\ documents[uri] = None)
                 => documents' = documents ]_vars
    /\ []( (/\ lsp_reply # None
            /\ lsp_reply[1].method \in Queries
            /\ documents[lsp_reply[1].uri] = None)
           => lsp_reply[1].result = Ok(None) )

\* a document was opened and closed, its entry is gone, and a hover on it
\* has been answered
C14_Witness ==
    /\ lsp_client["a.json"].state = "closed"
    /\ documents["a.json"] = None
    /\ lsp_pending = << >>
    /\ lsp_reply # None
    /\ lsp_reply[1].method = "hover"
    /\ lsp_reply[1].uri = "a.json"
    /\ lsp_reply[1].result = Ok(None)

\* Path::extension of the path of a document
extension(path) ==
    CASE path = "a.json" -> Some("json")
      [] path = "c.txt" -> Some("txt")
      [] OTHER -> None

\* the resolver main hands to start_server, as far as the format goes: a
\* path whose extension is neither json nor toml is declined
resolver(path) ==
    CASE extension(path) = Some("json") -> Some("Json")
      [] extension(path) = Some("toml") -> Some("Toml")
      [] OTHER -> None

\* C15: a didOpen for a URI the resolver declines is ignored: the server
\* creates no entry for it, and a later request for it gets an empty
\* response.
C15_DeclinedIgnored ==
    \A uri \in URIs :
        resolver(uri) = None =>
            /\ documents[uri] = None
            /\ (lsp_reply # None /\ lsp_reply[1].uri = uri
                /\ lsp_reply[1].method \in Queries)
               => lsp_reply[1].result = Ok(None)

\* the state of a document derives from the text: its line index is the
\* text's, its tree the one the text gives, and its token store the one
\* built from that tree
DerivesFrom(doc, text, parsed) ==
    /\ doc.line_index = LineIndex_new(text)
    /\ AnnotatedFor(doc, text, parsed)
    /\ parsed.tag = "Ok" =>
          doc.token_store = build_from_annotated(doc.annotated[1])

\* C16: when the client has sent didOpen and then didChange messages for a
\* URI and every handler has completed, the URI has an entry and the
\* entry's line index, tree and token store derive from the text of the
\* last of these messages: no change is lost and no earlier text replaces
\* a later one, although the handlers run concurrently and await a log
\* message around their access to the map.
C16_MutationOrderPreserved ==
    (lsp_backend # None /\ lsp_reply = None /\ lsp_pending = << >>) =>
        \A uri \in URIs :
            lsp_client[uri].state = "open" =>
                /\ documents[uri] # None
                /\ DerivesFrom(documents[uri][1], lsp_client[uri].text[1],
                               format_parse(lsp_backend[1].format,
                                            lsp_client[uri].text[1]))

\* the annotations of a tree that have the token's semantic type and a span
\* where the token is
NodesOf(annotated, token) ==
    { a \in { walk(annotated.value)[i] : i \in 1..Len(walk(annotated.value)) } :
        /\ a.semantic_type = Some(token.token_type)
        /\ \E k \in 1..Len(a.span) :
              a.span[k].start = token.start /\ a.span[k].end = token.end }

\* C17: a hover request at a position whose byte offset lies in some token
\* of the document is answered with a hover for the smallest such token:
\* its content is the kind, derived from the token's semantic type, then a
\* line feed, then the documentation of the token's node, which for an
\* object key is the doc comment of the schema's field.  When no token
\* contains the offset, there is no hover.
C17_HoverKindAndDocs ==
    (/\ lsp_reply # None
     /\ lsp_reply[1].method = "hover"
     /\ lsp_reply[1].result # Panic
     /\ documents[lsp_reply[1].uri] # None
     /\ documents[lsp_reply[1].uri][1].annotated # None) =>
        LET doc == documents[lsp_reply[1].uri][1]
            tokens == doc.token_store
            p == offset(doc.line_index, lsp_reply[1].at[1].line,
                        lsp_reply[1].at[1].character)[1]
            hits == Containing(tokens, p)
        IN IF hits = {} THEN lsp_reply[1].result = Ok(None)
           ELSE \E i \in hits :
                   /\ \A j \in hits : Width(tokens[i]) <= Width(tokens[j])
                   /\ \E a \in NodesOf(doc.annotated[1], tokens[i]) :
                         lsp_reply[1].result =
                            Ok(Some(Hover(hover_content(tokens[i].token_type)
                                          \o << a.docs >>)))

\* the annotations of a tree that have a semantic type, in the order of
\* the walk
Typed(annotated) ==
    SelectSeq(walk(annotated.value), LAMBDA a : a.semantic_type # None)

\* the legend positions of the semantic types
LegendIndex(semantic_type) ==
    CASE semantic_type = "Variable" -> 8
      [] semantic_type = "String" -> 18
      [] semantic_type = "Number" -> 19

\* the absolute line and column of token i of `data`, decoded from (0, 0):
\* lines add up; a column is relative to the column before on the same
\* line and absolute after a change of line
RECURSIVE Decoded(_, _)
Decoded(data, i) ==
    IF i = 0 THEN [line |-> U32(0, 0), col |-> U32(0, 0)]
    ELSE LET before == Decoded(data, i - 1)
             token == data[i]
         IN [line |-> U32(before.line.hi + token.delta_line.hi,
                          before.line.lo + token.delta_line.lo),
             col |-> IF token.delta_line = U32(0, 0)
                     THEN U32(before.col.hi + token.delta_start.hi,
                              before.col.lo + token.delta_start.lo)
                     ELSE token.delta_start]

\* C18: the response to semanticTokens/full has a token per node of the
\* tree that has a semantic type, in document order (the starts never
\* decrease), with type index 8 for Variable, 18 for String and 19 for
\* Number and with length end - start; the deltas are not negative and
\* decoding them from (0, 0) gives each token's line and column.  This
\* holds for JSON documents and for TOML documents in which a table header
\* revisits an earlier table.
C18_SemanticTokensDeltaEncoding ==
    (/\ lsp_reply # None
     /\ lsp_reply[1].method = "semantic_tokens_full"
     /\ documents[lsp_reply[1].uri] # None
     /\ documents[lsp_reply[1].uri][1].annotated # None) =>
        LET doc == documents[lsp_reply[1].uri][1]
            nodes == Typed(doc.annotated[1])
        IN /\ lsp_reply[1].result.tag = "Ok"
           /\ lsp_reply[1].result.value # None
           /\ LET data == lsp_reply[1].result.value[1]
              IN /\ Len(data) = Len(nodes)
                 /\ \A i \in 1..Len(data) :
                       LET span == primary(nodes[i].span)
                           at == line_col(doc.line_index, span.start)
                       IN /\ data[i].token_type =
                               LegendIndex(nodes[i].semantic_type[1])
                          /\ data[i].length = span.end - span.start
                          /\ data[i].delta_line.hi = 0
                          /\ data[i].delta_line.lo >= 0
                          /\ data[i].delta_start.hi = 0
                          /\ data[i].delta_start.lo >= 0
                          /\ Decoded(data, i) =
                               [line |-> U32(0, at.line), col |-> U32(0, at.col)]
                          /\ i > 1 =>
                               primary(nodes[i - 1].span).start <= span.start

----------------------------------------------------------------------------
(* Compiling a schema and applying the validator it returns: what the      *)
(* check command does with the schema source and the parsed document.      *)

\* schema sources: every name of the environment and two it does not bind,
\* literals and ranges where a validator is required, and arrays with and
\* without a length specifier
SchemaElements == { Ident("integer"), Ident("any") }
Indexes ==
    { Range(None, None, FALSE), Number(1) }
    \cup { Range(None, Some(Number(hi)), incl) :
             hi \in 0..MaxItems, incl \in BOOLEAN }
SchemaSources ==
    { SchemaSource(Ident(x)) : x \in default_env \cup { "unknown", "float" } }
    \cup { SchemaSource(Array(e, None)) : e \in SchemaElements }
    \cup { SchemaSource(Array(e, Some(index))) :
             e \in SchemaElements, index \in Indexes }
    \cup { SchemaSource(Number(5)),
           SchemaSource(Range(None, None, FALSE)),
           SchemaSource(Range(None, Some(Number(3)), TRUE)),
           SchemaSource(Range(None, Some(Ident("string")), FALSE)),
           SchemaSource(Object(<< MatchKey("a", FALSE, "", Number(1)) >>)),
           SchemaSource(Object(<< MatchKey("a", FALSE, "", Ident("unknown")) >>)),
           SchemaSource(Union(<< Ident("string"), Number(3) >>)),
           SchemaSource(Union(<< Ident("unknown"), Number(3) >>)),
           SchemaSource(Union(<< Ident("string"), Ident("integer") >>)),
           SchemaSource(Array(Number(5), None)),
           SchemaSource(Array(Ident("unknown"), None)),
           SchemaSource(SchemaN),
           SchemaSyntaxError }

\* the documents the compiled validators are applied to
SchemaDocuments ==
    { PNum(50), DocHello, DocFive }
    \cup { PArr(items) : items \in SeqUpTo({ PNum(50), PStr("x") }, MaxItems) }

\* deval_schema::compile(&schema_source)
Compile(source) ==
    /\ s_compiled = None
    /\ s_source' = Some(source)
    /\ s_compiled' = Some(compile(source))
    /\ UNCHANGED << v_vars, j_vars, t_vars, cli_vars, lsp_vars, c_vars >>

\* validator.validate(data), for the validator compile returned
ValidateCompiled(doc) ==
    LET parsed == Json_parse(Document(doc), JsonFile)
    IN /\ s_compiled # None
       /\ s_compiled[1].tag = "Validator"
       /\ v_res = None
       /\ parsed.tag = "Ok"
       /\ v_schema' = Some(s_compiled[1].validator)
       /\ v_data' = Some(parsed.value)
       /\ v_res' = Some(validate(s_compiled[1].validator, parsed.value))
       /\ UNCHANGED << j_vars, t_vars, cli_vars, lsp_vars, s_vars, c_vars >>

NextSchema ==
    \/ \E source \in SchemaSources : Compile(source)
    \/ \E doc \in SchemaDocuments : ValidateCompiled(doc)

SpecSchema == Init /\ [][NextSchema]_vars

\* the expression references an unknown identifier, or has a numeric
\* literal or a range where a validator is required
RECURSIVE Misuse(_)
Misuse(ast) ==
    CASE ast.kind = "Ident" ->
            ast.name \notin { "string", "number", "integer", "bool", "null",
                              "any" }
      [] ast.kind \in { "Number", "Range" } -> TRUE
      [] ast.kind = "Array" -> Misuse(ast.element)
      [] ast.kind = "Object" ->
            \E i \in 1..Len(ast.records) :
                /\ ast.records[i].kind = "SimpleKey"
                /\ Misuse(ast.records[i].value)
      [] ast.kind = "Union" ->
            \E i \in 1..Len(ast.cases) : Misuse(ast.cases[i])

\* C19: compile returns its errors as values: for a schema that references
\* an unknown identifier, or uses a numeric literal or a range where a
\* validator is required (the whole schema `5`, a field `a: 1`, a union
\* case `3`), it returns Err and does not panic; and an identifier
\* resolves only if it is one of the six built-in names.
C19_CompileErrorsAreValues ==
    (s_compiled # None /\ s_source[1].parse = "Ok") =>
        /\ Misuse(s_source[1].ast) => s_compiled[1].tag = "Err"
        /\ (s_source[1].ast.kind = "Ident" /\ s_compiled[1].tag = "Validator")
              => ~Misuse(s_source[1].ast)

\* the length L is outside the range a length specifier gives
OutsideRange(L, index) ==
    \/ index.start # None /\ L < index.start[1].n
    \/ /\ index.end # None
       /\ IF index.is_inclusive THEN L > index.end[1].n
          ELSE L >= index.end[1].n

\* the diagnostics of a result that are about the array itself, not about
\* one of its elements
LengthViolations(r, data) ==
    { i \in 1..Len(r.errors) : r.errors[i].span = primary(data.annotation) }

\* the diagnostics of validating every element with the element validator
ElementErrors(element, items) ==
    Flatten([i \in 1..Len(items) |-> validate(element, items[i]).errors])

\* C20: an array schema with a length specifier, `E[lo..hi]` or
\* `E[lo..=hi]` with either bound optional, compiles to a validator that,
\* for an array of length L, emits a length-violation diagnostic if and
\* only if L is outside the range, and also validates every element
\* with E.
C20_ArrayLengthSpecifier ==
    (/\ v_res # None
     /\ s_source # None
     /\ s_source[1].parse = "Ok"
     /\ s_source[1].ast.kind = "Array"
     /\ s_source[1].ast.index # None
     /\ s_source[1].ast.index[1].kind = "Range"
     /\ v_data[1].value.kind = "Array")
    => /\ v_res[1].tag = "Ok"
       /\ LengthViolations(v_res[1], v_data[1]) # {}
            <=> OutsideRange(Len(v_data[1].value.items),
                             s_source[1].ast.index[1])
       /\ \A i \in 1..Len(ElementErrors(v_schema[1].element,
                                          v_data[1].value.items)) :
            \E j \in 1..Len(v_res[1].errors) :
                v_res[1].errors[j] =
                    ElementErrors(v_schema[1].element,
                                  v_data[1].value.items)[i]

----------------------------------------------------------------------------
(* Lifting, compared node by node with the spanned tree it started from.   *)

\* a full annotation that keeps the SpanSet, has no docs and has the
\* semantic type sem
LiftedAs(annotation, spanset, sem) ==
    /\ annotation.span = spanset
    /\ primary(annotation.span) = primary(spanset)
    /\ annotation.docs = ""
    /\ annotation.semantic_type = sem

\* full is spanned with every value, every order and every SpanSet kept
RECURSIVE LiftedData(_, _)
LiftedData(spanned, full) ==
    /\ full.kind = spanned.kind
    /\ CASE spanned.kind = "Null" -> TRUE
         [] spanned.kind = "Bool" ->
               /\ full.b = spanned.b
               /\ LiftedAs(full.annotation, spanned.annotation, None)
         [] spanned.kind = "Number" ->
               /\ full.num = spanned.num
               /\ LiftedAs(full.annotation, spanned.annotation, Some("Number"))
         [] spanned.kind = "String" ->
               /\ full.str = spanned.str
               /\ LiftedAs(full.annotation, spanned.annotation, Some("String"))
         [] spanned.kind = "Array" ->
               /\ Len(full.items) = Len(spanned.items)
               /\ \A i \in 1..Len(spanned.items) :
                     /\ LiftedAs(full.items[i].annotation,
                                 spanned.items[i].annotation, None)
                     /\ LiftedData(spanned.items[i].value, full.items[i].value)
         [] spanned.kind = "Object" ->
               /\ Len(full.pairs) = Len(spanned.pairs)
               /\ \A i \in 1..Len(spanned.pairs) :
                     /\ full.pairs[i][1].value = spanned.pairs[i][1].value
                     /\ LiftedAs(full.pairs[i][1].annotation,
                                 spanned.pairs[i][1].annotation,
                                 Some("Variable"))
                     /\ LiftedAs(full.pairs[i][2].annotation,
                                 spanned.pairs[i][2].annotation, None)
                     /\ LiftedData(spanned.pairs[i][2].value,
                                   full.pairs[i][2].value)

\* C23: lifting a spanned tree to a full-annotation tree is total and
\* lossless: it keeps every value, the order of elements and pairs and
\* every SpanSet; docs are empty everywhere; the semantic type is String
\* on string leaves, Number on number leaves, Variable on object keys and
\* none on every other node.
C23_LiftingLossless ==
    (v_res # None /\ v_schema = Some(AnyValidator)) =>
        /\ v_res[1].tag = "Ok"
        /\ v_res[1].errors = << >>
        /\ LiftedAs(v_res[1].result.annotation, v_data[1].annotation, None)
        /\ LiftedData(v_data[1].value, v_res[1].result.value)

\* a TOML tree with a key of two spans and a number leaf has been lifted
C23_Witness ==
    /\ v_res # None /\ v_schema = Some(AnyValidator)
    /\ t_res # None
    /\ v_data[1].value.kind = "Object"
    /\ \E i \in 1..Len(v_data[1].value.pairs) :
          /\ Len(v_data[1].value.pairs[i][1].annotation) >= 2
          /\ v_res[1].result.value.pairs[i][1].annotation.semantic_type
                = Some("Variable")

----------------------------------------------------------------------------
(* The TOML table builder, one top-level node at a time.                   *)

\* a step of the loop of Toml::parse has applied a node
Applied == Len(t_nodes') = Len(t_nodes) + 1
AppliedNode == t_nodes'[Len(t_nodes')]

\* the parts of a header's path, as strings
PathOf(node) ==
    LET parts == Split(node.children[2].text)
    IN [i \in 1..Len(parts) |-> chars_to_string(parts[i])]

\* the value a path leads to in a tree, through objects only: None when
\* the path runs into a value that is no object, Some(None) when a part of
\* the path is not in the tree yet, and Some(Some(value)) otherwise
RECURSIVE Slot(_, _)
Slot(data, path) ==
    IF path = << >> THEN Some(Some(data))
    ELSE IF data.kind # "Object" THEN None
    ELSE LET hits == { i \in 1..Len(data.pairs) : data.pairs[i][1].value = path[1] }
         IN IF hits = {} THEN Some(None)
            ELSE Slot(data.pairs[CHOOSE i \in hits : \A j \in hits : i <= j][2].value,
                      Tail(path))

\* the header's path is free of conflicts in the tree: the table exists as
\* an object or can be created; for an array of tables the last part is an
\* array or is absent
Accepted(root, node) ==
    LET path == PathOf(node)
        slot == Slot(root, path)
    IN IF node.kind = "table"
       THEN slot # None /\ (slot[1] # None => slot[1][1].kind = "Object")
       ELSE LET parent == Slot(root, SubSeq(path, 1, Len(path) - 1))
            IN /\ parent # None
               /\ parent[1] # None => parent[1][1].kind = "Object"
               /\ slot # None
               /\ slot[1] # None => slot[1][1].kind = "Array"

\* the pairs of the table a node's pairs go to, as the tree has them
TargetPairs(root, node) ==
    CASE node.kind = "pair" -> root.pairs
      [] node.kind = "table" ->
            LET slot == Slot(root, PathOf(node))
            IN IF slot[1] = None THEN << >> ELSE slot[1][1].pairs
      [] node.kind = "table_array_element" ->
            LET slot == Slot(root, PathOf(node))
            IN IF slot[1] = None THEN << >>
               ELSE slot[1][1].items[Len(slot[1][1].items)].value.pairs

\* the pair nodes of a node: itself, or its children that are pairs
PairNodes(node) ==
    IF node.kind = "pair" THEN << node >>
    ELSE SelectSeq(node.children, LAMBDA c : c.kind = "pair")

\* a pair node whose value is read, and its key
Reads(pair_node) == pair_node.children[3].kind # "ERROR"
KeyOf(pair_node) == chars_to_string(pair_node.children[1].text)
KeySpan(pair_node) ==
    Span(TomlFile, pair_node.children[1].start, pair_node.children[1].end)

\* the pairs with a key in a sequence of pairs
WithKey(pairs, key) == SelectSeq(pairs, LAMBDA p : p[1].value = key)

\* the table a pair goes to has its key already: from the tree before the
\* node (an array of tables starts a fresh element), or from an earlier
\* pair of the same node
InTreeBefore(root, node, key) ==
    /\ node.kind # "table_array_element"
    /\ WithKey(TargetPairs(root, node), key) # << >>
EarlierInNode(node, c) ==
    { b \in 1..(c - 1) :
        Reads(PairNodes(node)[b])
        /\ KeyOf(PairNodes(node)[b]) = KeyOf(PairNodes(node)[c]) }
Duplicate(root, node, c) ==
    /\ Reads(PairNodes(node)[c])
    /\ \/ InTreeBefore(root, node, KeyOf(PairNodes(node)[c]))
       \/ EarlierInNode(node, c) # {}

\* some span of the tree starts inside the bytes of a node
Attached(root, node) ==
    \E ss \in SpanSetsOfData(root, FALSE) :
        \E i \in 1..Len(ss) : ss[i].start >= node.start /\ ss[i].start < node.end

DuplicateAt(kind_) ==
    \E n \in 1..Len(t_nodes) :
        /\ t_nodes[n].kind = kind_
        /\ \E e \in 1..Len(t_errors) :
              /\ t_errors[e].message \in { "Duplicate key at top level",
                                            "Duplicate key in table" }
              /\ t_errors[e].span.start >= t_nodes[n].start
              /\ t_errors[e].span.start < t_nodes[n].end
C25_WitnessTop == t_res # None /\ DuplicateAt("pair")
C25_WitnessArray == t_res # None /\ DuplicateAt("table_array_element")

\* a tree without its spans
RECURSIVE Bare(_)
Bare(value) ==
    CASE value.kind = "Null" -> value
      [] value.kind \in { "Bool", "Number", "String" } ->
            [value EXCEPT !.annotation = << >>]
      [] value.kind = "Array" ->
            [kind |-> "Array",
             items |-> [i \in 1..Len(value.items) |-> Bare(value.items[i].value)]]
      [] value.kind = "Object" ->
            [kind |-> "Object",
             pairs |-> [i \in 1..Len(value.pairs) |->
                          << value.pairs[i][1].value,
                             Bare(value.pairs[i][2].value) >>]]

\* the span of a whole node
NodeSpan(node) == Span(TomlFile, node.start, node.end)

\* C26: while walking the path of a `[p1.….pn]` header, if a slot on the
\* path, intermediate or final, already holds a value that is no object,
\* the parser records a diagnostic and abandons the table: none of the
\* header's child pairs is attached anywhere in the tree.  The same holds
\* for a `[[p1.….pn]]` header, and a final slot that already holds a value
\* that is no array is refused with a diagnostic and no element is
\* appended.
C26_TomlTableConflict ==
    [][(Applied /\ AppliedNode.kind \in { "table", "table_array_element" }
               /\ ~Accepted(t_root, AppliedNode))
       => /\ t_errors' = Append(t_errors,
                                [message |-> t_errors'[Len(t_errors')].message,
                                 span |-> NodeSpan(AppliedNode)])
          /\ \A c \in 1..Len(PairNodes(AppliedNode)) :
                ~Attached(t_root', PairNodes(AppliedNode)[c])
          /\ Bare(t_root') = Bare(t_root)]_vars

\* a header with a pair under it was refused because a part of its path
\* before the last holds a number
C26_Witness ==
    /\ Len(t_nodes) = 2
    /\ t_nodes[2].kind = "table"
    /\ Len(PathOf(t_nodes[2])) = 2
    /\ PairNodes(t_nodes[2]) # << >>
    /\ ~Accepted(t_root, t_nodes[2])
    /\ t_errors # << >>
    /\ t_errors[Len(t_errors)].span = NodeSpan(t_nodes[2])

\* `[[key]]` after `key = 1`: the last part of the path holds a number
C26_WitnessArray ==
    /\ Len(t_nodes) = 2
    /\ t_nodes[2].kind = "table_array_element"
    /\ Len(PathOf(t_nodes[2])) = 1
    /\ ~Accepted(t_root, t_nodes[2])
    /\ t_errors # << >>
    /\ t_errors[Len(t_errors)].message = "already defined as a non-array"

\* the array of tables a `[[p]]` header names, in a tree: its elements, or
\* none when the path is not there yet
ElementsAt(root, node) ==
    LET slot == Slot(root, PathOf(node))
    IN IF slot[1] = None THEN << >> ELSE slot[1][1].items

\* the pairs a node gives an empty table: each pair that is read, unless
\* an earlier pair of the node has its key
FreshPairs(node) ==
    LET pair_nodes == PairNodes(node)
        kept == { c \in 1..Len(pair_nodes) :
                    Reads(pair_nodes[c]) /\ EarlierInNode(node, c) = {} }
    IN [c \in kept |-> KeyOf(pair_nodes[c])]

\* C27: each `[[p]]` header appends exactly one fresh empty object to the
\* array at path p, creating the array on first use, and the pairs under
\* the header are added to that newest element only: after the k-th header
\* for a path the array holds k objects in source order and the first k-1
\* are unchanged.
C27_TomlArrayOfTables ==
    [][(Applied /\ AppliedNode.kind = "table_array_element"
               /\ Accepted(t_root, AppliedNode))
       => LET before == ElementsAt(t_root, AppliedNode)
              after == ElementsAt(t_root', AppliedNode)
              newest == after[Len(after)]
          IN /\ Slot(t_root', PathOf(AppliedNode))[1][1].kind = "Array"
             /\ Len(after) = Len(before) + 1
             /\ SubSeq(after, 1, Len(before)) = before
             /\ newest.value.kind = "Object"
             /\ primary(newest.annotation) = NodeSpan(AppliedNode)
             /\ Len(newest.value.pairs) = Cardinality(DOMAIN FreshPairs(AppliedNode))
             /\ \A i \in 1..Len(newest.value.pairs) :
                   /\ \E c \in DOMAIN FreshPairs(AppliedNode) :
                         /\ newest.value.pairs[i][1].value
                               = FreshPairs(AppliedNode)[c]
                         /\ newest.value.pairs[i][1].annotation
                               = << KeySpan(PairNodes(AppliedNode)[c]) >>
             /\ \A p \in 1..Len(after) :
                   primary(after[p].annotation).start
                       >= (IF p = 1 THEN 0
                           ELSE primary(after[p - 1].annotation).end)
             /\ \A c \in 1..Len(PairNodes(AppliedNode)) :
                   \A ss \in SpanSetsOfData(t_root', FALSE)
                             \ SpanSetsOfData(newest.value, FALSE) :
                       \A i \in 1..Len(ss) :
                           ~(ss[i].start >= PairNodes(AppliedNode)[c].start
                             /\ ss[i].start < PairNodes(AppliedNode)[c].end)]_vars

\* the second `[[p]]` header for a path, with a pair under it: the array
\* holds two objects and the pair is in the second
C27_Witness ==
    /\ Len(t_nodes) = 2
    /\ t_nodes[1].kind = "table_array_element"
    /\ t_nodes[2].kind = "table_array_element"
    /\ PathOf(t_nodes[1]) = PathOf(t_nodes[2])
    /\ Slot(t_root, PathOf(t_nodes[2])) # None
    /\ Slot(t_root, PathOf(t_nodes[2]))[1] # None
    /\ Len(ElementsAt(t_root, t_nodes[2])) = 2
    /\ Len(ElementsAt(t_root, t_nodes[2])[2].value.pairs) = 1
    /\ Len(ElementsAt(t_root, t_nodes[2])[1].value.pairs) = 0

----------------------------------------------------------------------------
(* The token store of a document against the tree it was built from.       *)

\* a token for each span of an annotation that has a semantic type
TypedSpansOf(annotation) ==
    IF annotation.semantic_type = None THEN << >>
    ELSE [j \in 1..Len(annotation.span) |->
            [start |-> annotation.span[j].start, end |-> annotation.span[j].end,
             token_type |-> annotation.semantic_type[1]]]

\* the tokens the nodes of a tree stand for: keys, values and leaves
RECURSIVE TypedSpans(_)
TypedSpans(value) ==
    CASE value.kind = "Null" -> << >>
      [] value.kind \in { "Bool", "Number", "String" } ->
            TypedSpansOf(value.annotation)
      [] value.kind = "Array" ->
            Flatten([i \in 1..Len(value.items) |->
                       TypedSpansOf(value.items[i].annotation)
                       \o TypedSpans(value.items[i].value)])
      [] value.kind = "Object" ->
            Flatten([i \in 1..Len(value.pairs) |->
                       TypedSpansOf(value.pairs[i][1].annotation)
                       \o TypedSpansOf(value.pairs[i][2].annotation)
                       \o TypedSpans(value.pairs[i][2].value)])

\* how often a sequence has an element
Occurrences(seq, x) == Cardinality({ i \in 1..Len(seq) : seq[i] = x })

\* the store has the tokens of the tree, each as often as the tree has it,
\* and nothing else
SameTokens(tokens, expected) ==
    /\ Len(tokens) = Len(expected)
    /\ \A i \in 1..Len(expected) :
          Occurrences(tokens, expected[i]) = Occurrences(expected, expected[i])

\* by start ascending, and among equal starts the widest first
StoreSorted(tokens) ==
    \A i \in 1..Len(tokens) : \A j \in (i + 1)..Len(tokens) :
        \/ tokens[i].start < tokens[j].start
        \/ tokens[i].start = tokens[j].start /\ tokens[i].end >= tokens[j].end

\* C28: after every build_from_annotated call the store holds exactly one
\* token per span and semantic type for each span of each node of the
\* given tree that has a semantic type, holds no token of an earlier
\* build, and is sorted by start ascending, then end descending.
C28_TokenStoreBuilt ==
    \A uri \in URIs :
        (documents[uri] # None /\ documents[uri][1].annotated # None) =>
            /\ SameTokens(documents[uri][1].token_store,
                          TypedSpans(documents[uri][1].annotated[1].value))
            /\ StoreSorted(documents[uri][1].token_store)

\* a document was rebuilt from a TOML text in which a key has two spans:
\* the store has a token for each, and the walk met them out of order
C28_Witness ==
    \E uri \in URIs :
        /\ documents[uri] # None /\ documents[uri][1].annotated # None
        /\ lsp_count >= 2
        /\ \E i \in 1..Len(documents[uri][1].annotated[1].value.pairs) :
              Len(documents[uri][1].annotated[1].value.pairs[i][1].annotation.span)
                 = 2
        /\ Len(documents[uri][1].token_store) >= 3
        /\ ~StoreSorted(TypedSpans(documents[uri][1].annotated[1].value))

\* C29: after any sequence of didOpen and didChange on a URI, once the last
\* handler has completed, the document's token store holds exactly the
\* tokens of its current tree and is empty when the document has no tree
\* (the latest text did not parse), so that hover and semanticTokens/range
\* never answer from the tokens of an earlier text.
C29_StoreFollowsText ==
    (lsp_backend # None /\ lsp_reply = None /\ lsp_pending = << >>) =>
        \A uri \in URIs :
            documents[uri] # None =>
                IF documents[uri][1].annotated = None
                THEN documents[uri][1].token_store = << >>
                ELSE SameTokens(documents[uri][1].token_store,
                                TypedSpans(documents[uri][1].annotated[1].value))

----------------------------------------------------------------------------
(* DVL source text.  A text is the sequence of its lexemes: whitespace,    *)
(* which every rule of the grammar pads away, is left out.  A word is a    *)
(* run of characters that text::ident does not accept as a whole.          *)

Punct(s) == [t |-> "punct", s |-> s, n |-> 0]
IdentTok(s) == [t |-> "ident", s |-> s, n |-> 0]
NumTok(n) == [t |-> "num", s |-> "", n |-> n]
WordTok(s) == [t |-> "word", s |-> s, n |-> 0]
\* `/// text` up to the end of the line
DocTok(s) == [t |-> "doc", s |-> s, n |-> 0]

\* property names that are no identifiers
Words == { "my-key" }
NameTok(s) == IF s \in Words THEN WordTok(s) ELSE IdentTok(s)

----------------------------------------------------------------------------
(* deval-schema-from-json-schema: convert.  The properties of a schema are *)
(* a HashMap: the loop over them takes the keys in an order the hasher     *)
(* picks, so a conversion has a set of possible results.                   *)

JsonSchema(type_field, properties, required, items, min_items, max_items,
           additional_properties, description) ==
    [type_field |-> type_field, properties |-> properties,
     required |-> required, items |-> items, min_items |-> min_items,
     max_items |-> max_items, additional_properties |-> additional_properties,
     description |-> description]

\* JsonSchemaType and AdditionalProperties
Single(type_str) == [tag |-> "Single", type_str |-> type_str]
Multiple(type_array) == [tag |-> "Multiple", type_array |-> type_array]
Boolean(b) == [tag |-> "Boolean", b |-> b]
Schema(schema) == [tag |-> "Schema", schema |-> schema]

\* the orders in which a map of these keys can be iterated
IterationOrders(keys) ==
    { order \in [1..Cardinality(keys) -> keys] :
        \A i, j \in 1..Cardinality(keys) : order[i] = order[j] => i = j }

\* Vec<String>::join
RECURSIVE join(_, _)
join(parts, sep) ==
    IF parts = << >> THEN << >>
    ELSE IF Len(parts) = 1 THEN parts[1]
    ELSE parts[1] \o sep \o join(Tail(parts), sep)

\* convert_json_type
convert_json_type(type_str) ==
    CASE type_str \in { "string", "number", "integer", "null" } ->
            << IdentTok(type_str) >>
      [] type_str = "boolean" -> << IdentTok("bool") >>
      [] type_str = "array" -> << IdentTok("any"), Punct("["), Punct("]") >>
      [] type_str = "object" -> << Punct("{"), Punct(".."), Punct("}") >>
      [] OTHER -> << IdentTok("any") >>

\* the len_range of an array schema
len_range(min_items, max_items) ==
    CASE min_items = None /\ max_items = None -> << Punct("["), Punct("]") >>
      [] min_items = None /\ max_items # None ->
            << Punct("["), Punct(".."), Punct("="), NumTok(max_items[1]),
               Punct("]") >>
      [] min_items # None /\ max_items = None ->
            << Punct("["), NumTok(min_items[1]), Punct(".."), Punct("]") >>
      [] OTHER ->
            << Punct("["), NumTok(min_items[1]), Punct(".."), Punct("="),
               NumTok(max_items[1]), Punct("]") >>

\* a converter that would take every object for an open one
allows_additional_always(schema) == TRUE

\* the match on additional_properties in convert_object_properties
allows_additional(schema) ==
    IF schema.additional_properties = None THEN TRUE
    ELSE IF schema.additional_properties[1].tag = "Boolean"
    THEN schema.additional_properties[1].b
    ELSE TRUE

\* convert_object_properties, for one iteration order and one text per
\* property
object_block(schema, order, field_types) ==
    LET fields ==
            [i \in 1..Len(order) |->
               LET key == order[i]
                   prop_schema == schema.properties[key]
                   is_optional == key \notin schema.required
               IN (IF prop_schema.description # None
                   THEN << DocTok(prop_schema.description[1]) >> ELSE << >>)
                  \o << NameTok(key) >>
                  \o (IF is_optional THEN << Punct("?") >> ELSE << >>)
                  \o << Punct(":") >> \o field_types[key]]
            \o (IF allows_additional(schema) THEN << << Punct("..") >> >>
                ELSE << >>)
    IN << Punct("{") >> \o join(fields, << Punct(",") >>) \o << Punct("}") >>

RECURSIVE json_schema_to_deval(_)

\* convert_object_properties: the texts it can return
convert_object_properties(schema) ==
    LET keys == DOMAIN schema.properties
        texts == [key \in keys |-> json_schema_to_deval(schema.properties[key])]
    IN { object_block(schema, order, field_types) :
           order \in IterationOrders(keys),
           field_types \in { f \in [keys -> UNION { texts[key] : key \in keys }] :
                               \A key \in keys : f[key] \in texts[key] } }

\* the texts a member of a type list can become
multiple_type(schema, type_str) ==
    CASE type_str = "array" ->
            IF schema.items # None
            THEN { inner \o << Punct("["), Punct("]") >> :
                     inner \in json_schema_to_deval(schema.items[1]) }
            ELSE { << IdentTok("any"), Punct("["), Punct("]") >> }
      [] type_str = "object" -> convert_object_properties(schema)
      [] OTHER -> { convert_json_type(type_str) }

\* json_schema_to_deval: the texts it can return
json_schema_to_deval(schema) ==
    IF schema.type_field # None
    THEN IF schema.type_field[1].tag = "Single"
         THEN LET type_str == schema.type_field[1].type_str
              IN CASE type_str = "array" ->
                        IF schema.items # None
                        THEN { inner \o len_range(schema.min_items, schema.max_items) :
                                 inner \in json_schema_to_deval(schema.items[1]) }
                        ELSE { << IdentTok("any") >>
                               \o len_range(schema.min_items, schema.max_items) }
                   [] type_str = "object" -> convert_object_properties(schema)
                   [] OTHER -> { convert_json_type(type_str) }
         ELSE LET type_array == schema.type_field[1].type_array
                  texts == [i \in 1..Len(type_array) |->
                              multiple_type(schema, type_array[i])]
              IN { join(converted_types, << Punct("|") >>) :
                     converted_types \in
                       { f \in [1..Len(type_array) ->
                                  UNION { texts[i] : i \in 1..Len(type_array) }] :
                           \A i \in 1..Len(type_array) : f[i] \in texts[i] } }
    ELSE IF DOMAIN schema.properties # {}
    THEN convert_object_properties(schema)
    ELSE IF schema.additional_properties # None
    THEN convert_object_properties(schema)
    ELSE { << IdentTok("any") >> }

\* convert, for a text that deserializes to json_schema
convert(json_schema) == json_schema_to_deval(json_schema)

----------------------------------------------------------------------------
(* deval-schema-parser: the grammar, over the lexemes of a text.  A rule   *)
(* reads from a position and either fails or returns what it read and the  *)
(* position after it.  A choice takes the first alternative that succeeds  *)
(* and never returns to it; a repetition ends where its item fails.        *)

Read(ast, pos) == [ok |-> TRUE, ast |-> ast, pos |-> pos]
Fail == [ok |-> FALSE]

\* a.or(b): the first alternative that succeeds
or(first, second) == IF first.ok THEN first ELSE second

\* a.then(b): `rest` goes on from what was read
then(read, rest(_)) == IF read.ok THEN rest(read) ELSE Fail

\* number.or(ident)
number_or_ident(toks, pos) ==
    IF pos > Len(toks) THEN Fail
    ELSE IF toks[pos].t = "num" THEN Read(Number(toks[pos].n), pos + 1)
    ELSE IF toks[pos].t = "ident" THEN Read(Ident(toks[pos].s), pos + 1)
    ELSE Fail

\* x.or_not(): what was read, or nothing read at pos
or_not(read, pos) == IF read.ok THEN Read(Some(read.ast), read.pos)
                     ELSE Read(None, pos)

\* just("=").or_not()
equals_or_not(toks, pos) ==
    IF pos <= Len(toks) /\ toks[pos] = Punct("=") THEN Read(TRUE, pos + 1)
    ELSE Read(FALSE, pos)

\* just(s) at a position
just(toks, pos, s) ==
    IF pos <= Len(toks) /\ toks[pos] = Punct(s) THEN Read(s, pos + 1) ELSE Fail

\* range: number_or_ident.or_not(), `..`, `=`.or_not(), number_or_ident.or_not()
range(toks, pos) ==
    then(or_not(number_or_ident(toks, pos), pos), LAMBDA start :
    then(just(toks, start.pos, ".."), LAMBDA dots :
    then(equals_or_not(toks, dots.pos), LAMBDA is_inclusive :
    then(or_not(number_or_ident(toks, is_inclusive.pos), is_inclusive.pos),
         LAMBDA end :
           Read(Range(start.ast, end.ast, is_inclusive.ast), end.pos)))))

\* doc_comment.repeated(), after the comments `found`
RECURSIVE doc_comments(_, _, _)
doc_comments(toks, pos, found) ==
    IF pos <= Len(toks) /\ toks[pos].t = "doc"
    THEN doc_comments(toks, pos + 1, Append(found, toks[pos].s))
    ELSE Read(IF found = << >> THEN ""
              ELSE IF Len(found) = 1 THEN found[1] ELSE found,
              pos)

\* text::ident().then(just("?").or_not()): the key and whether it is optional
key_then_mark(toks, pos) ==
    IF pos > Len(toks) \/ toks[pos].t # "ident" THEN Fail
    ELSE IF pos + 1 <= Len(toks) /\ toks[pos + 1] = Punct("?")
    THEN Read(<< toks[pos].s, TRUE >>, pos + 2)
    ELSE Read(<< toks[pos].s, FALSE >>, pos + 1)

RECURSIVE data(_, _)
RECURSIVE records(_, _, _)
RECURSIVE brackets(_, _)
RECURSIVE cases(_, _, _)

\* simple_key_record: the docs, the key, `:`, the data type
simple_key_record(toks, pos) ==
    then(doc_comments(toks, pos, << >>), LAMBDA docs :
    then(key_then_mark(toks, docs.pos), LAMBDA key :
    then(just(toks, key.pos, ":"), LAMBDA colon :
    then(data(toks, colon.pos), LAMBDA value :
           Read(MatchKey(key.ast[1], key.ast[2], docs.ast, value.ast),
                value.pos)))))

\* any_key_record
any_key_record(toks, pos) ==
    then(just(toks, pos, ".."), LAMBDA dots : Read(MatchAnyKey, dots.pos))

\* record: simple_key_record.or(any_key_record)
record(toks, pos) == or(simple_key_record(toks, pos), any_key_record(toks, pos))

\* the separator of a repetition and the item after it; with
\* allow_trailing a separator alone is read too, without an item
separated(sep, item, allow_trailing) ==
    IF ~sep.ok THEN Fail
    ELSE IF item.ok THEN Read(<< item.ast >>, item.pos)
    ELSE IF allow_trailing THEN Read(<< >>, sep.pos)
    ELSE Fail

\* record.separated_by(just(',')).allow_trailing(): first a record, then
\* commas and records for as long as they are there
records_after(toks, found, next) ==
    IF ~next.ok THEN found
    ELSE IF next.ast = << >> THEN Read(found.ast, next.pos)
    ELSE records(toks, next.pos, found.ast \o next.ast)

records(toks, pos, found) ==
    records_after(toks, Read(found, pos),
        IF found = << >>
        THEN then(record(toks, pos), LAMBDA first : Read(<< first.ast >>, first.pos))
        ELSE then(just(toks, pos, ","), LAMBDA comma :
                  separated(comma, record(toks, comma.pos), TRUE)))

\* object: `{`, the records, `}`
object(toks, pos) ==
    then(just(toks, pos, "{"), LAMBDA open :
    then(records(toks, open.pos, << >>), LAMBDA inside :
    then(just(toks, inside.pos, "}"), LAMBDA close :
           Read(Object(inside.ast), close.pos))))

\* array_index: `[`, data.or_not(), `]`; it reads the optional index
array_index(toks, pos) ==
    then(just(toks, pos, "["), LAMBDA open :
    then(or_not(data(toks, open.pos), open.pos), LAMBDA index :
    then(just(toks, index.pos, "]"), LAMBDA close :
           Read(index.ast, close.pos))))

\* array_index.repeated() folded over the base
brackets_after(toks, base, index) ==
    IF index.ok THEN brackets(toks, Read(Array(base.ast, index.ast), index.pos))
    ELSE base

brackets(toks, base) == brackets_after(toks, base, array_index(toks, base.pos))

\* arrayable: number_or_ident.or(range).or(object), then the brackets
arrayable(toks, pos) ==
    then(or(or(number_or_ident(toks, pos), range(toks, pos)), object(toks, pos)),
         LAMBDA base : brackets(toks, base))

\* arrayable.separated_by(just('|')), after the cases `found`
cases_after(toks, found, next) ==
    IF next.ok THEN cases(toks, next.pos, found.ast \o next.ast) ELSE found

cases(toks, pos, found) ==
    cases_after(toks, Read(found, pos),
        then(just(toks, pos, "|"), LAMBDA bar :
             separated(bar, arrayable(toks, bar.pos), FALSE)))

\* union: at least one arrayable; a single one stands for itself
data(toks, pos) ==
    then(arrayable(toks, pos), LAMBDA first :
    then(cases(toks, first.pos, << first.ast >>), LAMBDA items :
           Read(IF Len(items.ast) = 1 THEN items.ast[1] ELSE Union(items.ast),
                items.pos)))

\* parser().then_ignore(end()): the expression must end the text
parse_end(toks, read) ==
    IF read.ok /\ read.pos = Len(toks) + 1 THEN SchemaSource(read.ast)
    ELSE SchemaSyntaxError

\* deval_schema_parser::parse
parse(toks) == parse_end(toks, data(toks, 1))

----------------------------------------------------------------------------
(* Converting a JSON Schema and compiling the text convert returned, and   *)
(* compiling a schema text as it was written.                              *)

\* a schema that is just a type
Of(type_str) ==
    JsonSchema(Some(Single(type_str)), << >>, {}, None, None, None, None, None)
Described(schema, text) == [schema EXCEPT !.description = Some(text)]
ListOf(type_array, items) ==
    JsonSchema(Some(Multiple(type_array)), << >>, {}, items, None, None, None,
               None)
ArrayOf(items, min_items, max_items) ==
    JsonSchema(Some(Single("array")), << >>, {}, items, min_items, max_items,
               None, None)
ObjectOf(type_field, properties, required, additional_properties) ==
    JsonSchema(type_field, properties, required, None, None, None,
               additional_properties, None)

\* name (required, described) and age
Person == [key \in { "name", "age" } |->
             IF key = "name" THEN Described(Of("string"), "The name")
             ELSE Of("integer")]

AdditionalChoices ==
    { None, Some(Boolean(FALSE)), Some(Boolean(TRUE)), Some(Schema(Of("string"))) }

JsonSchemas ==
    { Of(t) : t \in { "string", "number", "integer", "null", "boolean", "array",
                      "object", "date" } }
    \cup { ListOf(<< "string", "integer" >>, None),
           ListOf(<< "string" >>, None),
           ListOf(<< "string", "number", "boolean", "null" >>, None),
           ListOf(<< "array", "null" >>, Some(Of("string"))),
           ListOf(<< "array", "null" >>, None),
           ListOf(<< "object", "string" >>, None) }
    \cup { ArrayOf(items, min_items, max_items) :
             items \in { None, Some(Of("string")) },
             min_items \in { None, Some(1) }, max_items \in { None, Some(3) } }
    \cup { ObjectOf(Some(Single("object")), Person, { "name" }, additional) :
             additional \in AdditionalChoices }
    \cup { ObjectOf(Some(Single("object")), << >>, {}, additional) :
             additional \in AdditionalChoices }
    \cup { ObjectOf(None, Person, { "name", "age" }, None),
           ObjectOf(None, << >>, {}, Some(Boolean(FALSE))),
           ObjectOf(None, << >>, {}, None),
           \* a closed object whose property is an open object
           ObjectOf(Some(Single("object")),
                    [key \in { "user" } |-> Of("object")], { "user" },
                    Some(Boolean(FALSE))),
           \* a closed object whose property is an array of at most 3
           ObjectOf(Some(Single("object")),
                    [key \in { "tags" } |->
                       ArrayOf(Some(Of("string")), None, Some(3))], {},
                    Some(Boolean(FALSE))),
           ObjectOf(Some(Single("object")),
                    [key \in { "my-key" } |-> Of("string")], {}, None) }

\* schema texts as they are written: `{ .. }`, `{ .., .. }`,
\* `{ name: string, .., .. }`, `{ .., name: string, .. }`,
\* `{ name: string, }`, `string[..=3]`, `string[1..3]`, `{ .. .. }`
SchemaTexts ==
    { << Punct("{"), Punct(".."), Punct("}") >>,
      << Punct("{"), Punct(".."), Punct(","), Punct(".."), Punct("}") >>,
      << Punct("{"), IdentTok("name"), Punct(":"), IdentTok("string"),
         Punct(","), Punct(".."), Punct(","), Punct(".."), Punct("}") >>,
      << Punct("{"), Punct(".."), Punct(","), IdentTok("name"), Punct(":"),
         IdentTok("string"), Punct(","), Punct(".."), Punct("}") >>,
      << Punct("{"), IdentTok("name"), Punct(":"), IdentTok("string"),
         Punct(","), Punct("}") >>,
      << IdentTok("string"), Punct("["), Punct(".."), Punct("="), NumTok(3),
         Punct("]") >>,
      << IdentTok("string"), Punct("["), NumTok(1), Punct(".."), NumTok(3),
         Punct("]") >>,
      << Punct("{"), Punct(".."), Punct(".."), Punct("}") >> }

\* convert(json_schema_text): one invocation
Convert(json_schema) ==
    /\ Len(c_text) < MaxCalls
    /\ c_schema \in { None, Some(json_schema) }
    /\ s_compiled = None
    /\ c_schema' = Some(json_schema)
    /\ \E text \in convert(json_schema) : c_text' = Append(c_text, text)
    /\ UNCHANGED << v_vars, j_vars, t_vars, cli_vars, lsp_vars, s_vars >>

\* deval_schema::compile(&schema_source) on a text
CompileText(text) ==
    /\ s_compiled = None
    /\ s_source' = Some(text)
    /\ s_compiled' = Some(compile(parse(text)))
    /\ UNCHANGED << v_vars, j_vars, t_vars, cli_vars, lsp_vars, c_vars >>

\* the text convert returned last is compiled
CompileConverted == c_text # << >> /\ CompileText(c_text[Len(c_text)])

\* a written schema is compiled
CompileWritten == c_text = << >> /\ \E text \in SchemaTexts : CompileText(text)

NextConvert ==
    \/ \E json_schema \in JsonSchemas : Convert(json_schema)
    \/ CompileConverted
    \/ CompileWritten

SpecConvert == Init /\ [][NextConvert]_vars

\* C21: for every JSON Schema of the supported subset (a single type, a
\* type list, an object with properties, required and
\* additionalProperties, an array with items, minItems and maxItems,
\* descriptions) the DVL text convert returns is accepted by
\* deval_schema::compile: it parses and compiles.
C21_ConvertedTextCompiles ==
    (s_compiled # None /\ c_text # << >>) =>
        /\ parse(s_source[1]).parse = "Ok"
        /\ s_compiled[1].tag = "Validator"

\* how many of the lexemes before the i-th are `open` and not yet closed
Depth(text, i, open, close) ==
    Cardinality({ j \in 1..(i - 1) : text[j] = Punct(open) })
    - Cardinality({ j \in 1..(i - 1) : text[j] = Punct(close) })

\* the `..` markers of the block a text starts with: those directly
\* inside its braces, outside any nested block and any `[ ]`
OwnMarkers(text) ==
    { i \in 1..Len(text) :
        /\ text[i] = Punct("..")
        /\ Depth(text, i, "{", "}") = 1
        /\ Depth(text, i, "[", "]") = 0 }

\* the schemas convert turns into a record block
IsObject(schema) ==
    IF schema.type_field # None
    THEN schema.type_field[1] = Single("object")
    ELSE DOMAIN schema.properties # {} \/ schema.additional_properties # None

\* C22, as claimed: for every JSON Schema object, the emitted text contains
\* `..` if and only if additionalProperties is not the boolean false; with
\* additionalProperties false the output contains no `..` at all.
C22_MarkerIffAdditional ==
    (c_schema # None /\ IsObject(c_schema[1])) =>
        \A n \in 1..Len(c_text) :
            (\E i \in 1..Len(c_text[n]) : c_text[n][i] = Punct(".."))
            <=> c_schema[1].additional_properties # Some(Boolean(FALSE))

\* C22, amended: for every JSON Schema object, the record block emitted
\* for the object has a `..` record of its own, exactly one and as its
\* last record, if and only if additionalProperties is not the boolean
\* false.  The texts of the properties can hold `..` of their own (a nested
\* open object, an array length range), so the output of a closed object
\* is free of `..` only if the texts of its properties are.
C22_OwnMarkerIffAdditional ==
    (c_schema # None /\ IsObject(c_schema[1])) =>
        \A n \in 1..Len(c_text) :
            /\ c_text[n][1] = Punct("{")
            /\ c_text[n][Len(c_text[n])] = Punct("}")
            /\ IF c_schema[1].additional_properties # Some(Boolean(FALSE))
               THEN OwnMarkers(c_text[n]) = { Len(c_text[n]) - 1 }
               ELSE OwnMarkers(c_text[n]) = {}

\* a closed object with an open object as a property was converted: the
\* text has a `..`, and not as a record of the outer block
C22_Witness ==
    /\ c_schema # None /\ IsObject(c_schema[1])
    /\ c_schema[1].additional_properties = Some(Boolean(FALSE))
    /\ c_text # << >>
    /\ \E i \in 1..Len(c_text[1]) : c_text[1][i] = Punct("..")
    /\ OwnMarkers(c_text[1]) = {}

\* two `..` records in one object literal: no brace between them, and
\* outside any `[ ]`
TwoMarkers(text) ==
    \E i, j \in 1..Len(text) :
        /\ i < j
        /\ text[i] = Punct("..") /\ text[j] = Punct("..")
        /\ Depth(text, i, "[", "]") = 0 /\ Depth(text, j, "[", "]") = 0
        /\ \A k \in (i + 1)..(j - 1) :
              text[k] # Punct("{") /\ text[k] # Punct("}")

\* C24: `..` may appear at most once per object literal: the parser and
\* the compiler never yield an object validator from an object literal
\* with two or more `..` markers; such a schema is rejected with a
\* diagnostic.
C24_AnyKeyAtMostOnce ==
    (s_compiled # None /\ c_text = << >> /\ TwoMarkers(s_source[1])) =>
        s_compiled[1].tag = "Err"

\* C30: convert is a deterministic function of its text: two invocations
\* on the same JSON Schema text return the same DVL text, the order of an
\* object's properties in the record block included.
C30_ConvertDeterministic ==
    \A m, n \in 1..Len(c_text) : c_text[m] = c_text[n]

====
